---------------------------- MODULE Spec2Model ----------------------------
(***************************************************************************)
(* The simulated plugins of the semantic-kernel examples: MathPlugin,      *)
(* WeatherPlugin and DatabasePlugin.  Each kernel function is an operator  *)
(* computed as its Python body computes it, texts are strings built by the *)
(* same concatenations as the f-strings of the source, and every call is   *)
(* an action that records the operation, its arguments and what it         *)
(* returned (or raised).                                                   *)
(*                                                                         *)
(* Python floats are modelled as exact rationals n/d; the only inexact     *)
(* operation of the model is the non-integer power (the square root),      *)
(* which rounds down to a multiple of 1/RootPrecision.                     *)
(* Characters outside ASCII in the source's texts are transliterated:      *)
(* the degree sign is "*", the check mark "[v]", the cross "[x]" and the   *)
(* multiplication sign "x".                                                *)
(***************************************************************************)
EXTENDS Integers, Sequences, FiniteSets, TLC

VARIABLES
    users,         \* DatabasePlugin._users
    products,      \* DatabasePlugin._products
    orders,        \* DatabasePlugin._orders
    weather_data,  \* WeatherPlugin._weather_data
    op,            \* the kernel function called last ("" before any call)
    args,          \* its arguments: [num, int, str], one sequence per type
    result,        \* what it returned or raised: [kind, text, num]
    draws,         \* the values the random module gave that call, in order
    watch,         \* history: the first call under watch and what it returned
    threads,       \* each thread's call in progress: its position and locals
    script         \* the example script that runs: its position and locals

vars ==
    <<users, products, orders, weather_data, op, args, result, draws, watch,
      threads, script>>

tables == <<users, products, orders, weather_data>>

---------------------------------------------------------------------------
(* Bounds of the model. *)

\* math arguments are the integers and the halves k/2 with |k| <= MaxNum
MaxNum == 4
\* a non-integer power is rounded down to a multiple of 1/RootPrecision
RootPrecision == 100
\* ids probed: every id within IdMargin of an id some table holds
IdMargin == 1
\* search queries: the substrings of at most MaxQueryLen characters
MaxQueryLen == 2

---------------------------------------------------------------------------
(* Python str *)

Chr(s, i) == SubSeq(s, i, i)

UpperCase == "ABCDEFGHIJKLMNOPQRSTUVWXYZ"
LowerCase == "abcdefghijklmnopqrstuvwxyz"

IsUpper(c) == \E i \in 1..26 : Chr(UpperCase, i) = c
IsLower(c) == \E i \in 1..26 : Chr(LowerCase, i) = c
IsCased(c) == IsUpper(c) \/ IsLower(c)

lower_char(c) ==
    IF IsUpper(c)
    THEN Chr(LowerCase, CHOOSE i \in 1..26 : Chr(UpperCase, i) = c)
    ELSE c

upper_char(c) ==
    IF IsLower(c)
    THEN Chr(UpperCase, CHOOSE i \in 1..26 : Chr(LowerCase, i) = c)
    ELSE c

\* str.lower()
RECURSIVE lower(_)
lower(s) == IF s = "" THEN "" ELSE lower_char(Head(s)) \o lower(Tail(s))

\* str.upper()
RECURSIVE upper(_)
upper(s) == IF s = "" THEN "" ELSE upper_char(Head(s)) \o upper(Tail(s))

\* str.title(): a cased character is upper case after an uncased one (or at
\* the start) and lower case after a cased one
RECURSIVE title_from(_, _)
title_from(s, prev_cased) ==
    IF s = "" THEN ""
    ELSE LET c == Head(s)
         IN  (IF prev_cased THEN lower_char(c) ELSE upper_char(c))
                 \o title_from(Tail(s), IsCased(c))

title(s) == title_from(s, FALSE)

\* Python's `q in s` on strings
contains(q, s) ==
    \E i \in 1..(Len(s) - Len(q) + 1) : SubSeq(s, i, i + Len(q) - 1) = q

\* str(int) as the f-string formats it
str_int(n) == ToString(n)

\* str(bool)
str_bool(b) == IF b THEN "True" ELSE "False"

---------------------------------------------------------------------------
(* Python float, as an exact rational [n, d] in lowest terms with d > 0 *)

Abs(k) == IF k < 0 THEN 0 - k ELSE k

RECURSIVE Gcd(_, _)
Gcd(a, b) == IF b = 0 THEN a ELSE Gcd(b, a % b)

Rat(n, d) ==
    LET g == Gcd(Abs(n), Abs(d))
        s == IF d < 0 THEN 0 - 1 ELSE 1
    IN  [n |-> (s * n) \div g, d |-> (s * d) \div g]

Zero == Rat(0, 1)
One == Rat(1, 1)
Half == Rat(1, 2)
Hundred == Rat(100, 1)

IsZero(a) == a.n = 0
IsNeg(a) == a.n < 0
IsInteger(a) == a.d = 1

RAdd(a, b) == Rat(a.n * b.d + b.n * a.d, a.d * b.d)
RSub(a, b) == Rat(a.n * b.d - b.n * a.d, a.d * b.d)
RMul(a, b) == Rat(a.n * b.n, a.d * b.d)
\* the caller has excluded b = 0
RDiv(a, b) == Rat(a.n * b.d, a.d * b.n)
RLess(a, b) == a.n * b.d < b.n * a.d
RLeq(a, b) == a.n * b.d <= b.n * a.d

\* a to the k-th, k a natural number
RECURSIVE RPowNat(_, _)
RPowNat(a, k) == IF k = 0 THEN One ELSE RMul(a, RPowNat(a, k - 1))

\* the largest r with r*r <= x, by bisection on lo..hi
RECURSIVE ISqrtIn(_, _, _)
ISqrtIn(x, lo, hi) ==
    IF lo >= hi THEN lo
    ELSE LET mid == (lo + hi + 1) \div 2
         IN  IF mid * mid <= x THEN ISqrtIn(x, mid, hi)
                               ELSE ISqrtIn(x, lo, mid - 1)

ISqrt(x) == ISqrtIn(x, 0, IF x < 46340 THEN x ELSE 46340)

\* the square root of a >= 0, rounded down to a multiple of 1/RootPrecision
RRoot(a) ==
    Rat(ISqrt((a.n * RootPrecision * RootPrecision) \div a.d), RootPrecision)

---------------------------------------------------------------------------
(* What a call returns: a float, a str, a complex, or an exception raised *)

NoArgs == [num |-> <<>>, int |-> <<>>, str |-> <<>>]
NumArgs(s) == [num |-> s, int |-> <<>>, str |-> <<>>]
IntArgs(s) == [num |-> <<>>, int |-> s, str |-> <<>>]
StrArgs(s) == [num |-> <<>>, int |-> <<>>, str |-> s]

Float(a) == [kind |-> "float", text |-> "", num |-> a]
Str(s) == [kind |-> "str", text |-> s, num |-> Zero]
\* a complex result; its value is not modelled
Complex == [kind |-> "complex", text |-> "", num |-> Zero]
Raise(exc) == [kind |-> "raise", text |-> exc, num |-> Zero]
NoResult == [kind |-> "none", text |-> "", num |-> Zero]

\* Python's float division
truediv(a, b) ==
    IF IsZero(b) THEN Raise("ZeroDivisionError") ELSE Float(RDiv(a, b))

\* Python's float ** float
pow(base, exponent) ==
    IF IsZero(exponent) THEN Float(One)
    ELSE IF IsZero(base) THEN
        IF IsNeg(exponent) THEN Raise("ZeroDivisionError") ELSE Float(Zero)
    ELSE IF IsNeg(base) /\ ~IsInteger(exponent) THEN Complex
    ELSE LET k == Abs(exponent.n)
             p == RPowNat(base, k)
             q == IF IsNeg(exponent) THEN RDiv(One, p) ELSE p
         IN  IF IsInteger(exponent) THEN Float(q) ELSE Float(RRoot(q))

---------------------------------------------------------------------------
(* MathPlugin *)

add(number1, number2) == Float(RAdd(number1, number2))

subtract(number1, number2) == Float(RSub(number1, number2))

multiply(number1, number2) == Float(RMul(number1, number2))

divide_unguarded(number1, number2) == truediv(number1, number2)

divide(number1, number2) ==
    IF IsZero(number2) THEN Str("Error: Cannot divide by zero")
    ELSE truediv(number1, number2)

power(base, exponent) == pow(base, exponent)

square_root_unguarded(number) == pow(number, Half)

square_root(number) ==
    IF IsNeg(number)
    THEN Str("Error: Cannot calculate square root of negative number")
    ELSE pow(number, Half)

percentage(part, whole) ==
    IF IsZero(whole)
    THEN Str("Error: Cannot calculate percentage with zero as whole")
    ELSE LET q == truediv(part, whole)
         IN  IF q.kind = "float" THEN Float(RMul(q.num, Hundred)) ELSE q

---------------------------------------------------------------------------
(* DatabasePlugin: the tables *)

DatabasePlugin_users == <<
    [id |-> 1, name |-> "Alice Johnson", email |-> "alice@example.com",
     role |-> "Admin", active |-> TRUE],
    [id |-> 2, name |-> "Bob Smith", email |-> "bob@example.com",
     role |-> "User", active |-> TRUE],
    [id |-> 3, name |-> "Charlie Brown", email |-> "charlie@example.com",
     role |-> "User", active |-> FALSE],
    [id |-> 4, name |-> "Diana Prince", email |-> "diana@example.com",
     role |-> "Manager", active |-> TRUE],
    [id |-> 5, name |-> "Eve Davis", email |-> "eve@example.com",
     role |-> "User", active |-> TRUE] >>

\* the product table with the row of the monitor (104) left out
DatabasePlugin_products_without_monitor == <<
    [id |-> 101, name |-> "Laptop", price |-> Rat(99999, 100), stock |-> 15,
     category |-> "Electronics"],
    [id |-> 102, name |-> "Mouse", price |-> Rat(2999, 100), stock |-> 50,
     category |-> "Electronics"],
    [id |-> 103, name |-> "Keyboard", price |-> Rat(7999, 100), stock |-> 30,
     category |-> "Electronics"],
    [id |-> 105, name |-> "Desk Chair", price |-> Rat(19999, 100), stock |-> 12,
     category |-> "Furniture"],
    [id |-> 106, name |-> "Desk", price |-> Rat(39999, 100), stock |-> 5,
     category |-> "Furniture"] >>

\* a price is the rational cents/100
DatabasePlugin_products == <<
    [id |-> 101, name |-> "Laptop", price |-> Rat(99999, 100), stock |-> 15,
     category |-> "Electronics"],
    [id |-> 102, name |-> "Mouse", price |-> Rat(2999, 100), stock |-> 50,
     category |-> "Electronics"],
    [id |-> 103, name |-> "Keyboard", price |-> Rat(7999, 100), stock |-> 30,
     category |-> "Electronics"],
    [id |-> 104, name |-> "Monitor", price |-> Rat(29999, 100), stock |-> 8,
     category |-> "Electronics"],
    [id |-> 105, name |-> "Desk Chair", price |-> Rat(19999, 100), stock |-> 12,
     category |-> "Furniture"],
    [id |-> 106, name |-> "Desk", price |-> Rat(39999, 100), stock |-> 5,
     category |-> "Furniture"] >>

\* the order table with the last row keeping the id of the row it was copied from
DatabasePlugin_orders_copied_id == <<
    [id |-> 1001, user_id |-> 1, product_id |-> 101, quantity |-> 1,
     status |-> "Delivered"],
    [id |-> 1002, user_id |-> 2, product_id |-> 102, quantity |-> 2,
     status |-> "Shipped"],
    [id |-> 1003, user_id |-> 1, product_id |-> 104, quantity |-> 1,
     status |-> "Processing"],
    [id |-> 1003, user_id |-> 4, product_id |-> 105, quantity |-> 3,
     status |-> "Delivered"] >>

DatabasePlugin_orders == <<
    [id |-> 1001, user_id |-> 1, product_id |-> 101, quantity |-> 1,
     status |-> "Delivered"],
    [id |-> 1002, user_id |-> 2, product_id |-> 102, quantity |-> 2,
     status |-> "Shipped"],
    [id |-> 1003, user_id |-> 1, product_id |-> 104, quantity |-> 1,
     status |-> "Processing"],
    [id |-> 1004, user_id |-> 4, product_id |-> 105, quantity |-> 3,
     status |-> "Delivered"] >>

---------------------------------------------------------------------------
(* Formatting of floats *)

\* two decimal digits
digits2(k) == (IF k < 10 THEN "0" ELSE "") \o str_int(k)

\* repr(float) of a non-negative amount with at most two decimals, as
\* f"{price}" prints it: the shortest decimal, at least one digit after "."
repr_float(a) ==
    LET cents == (a.n * 100) \div a.d
        whole == cents \div 100
        frac == cents % 100
    IN  str_int(whole) \o "." \o
            (IF frac % 10 = 0 THEN str_int(frac \div 10) ELSE digits2(frac))

\* f"{value:.2f}" of a non-negative amount: rounded to the nearest cent
format_2f(a) ==
    LET cents == (2 * a.n * 100 + a.d) \div (2 * a.d)
    IN  str_int(cents \div 100) \o "." \o digits2(cents % 100)

---------------------------------------------------------------------------
(* DatabasePlugin: the kernel functions, over the tables of the state *)

\* next((r for r in table if r["id"] == id), None): the rows found, of which
\* the first is the one taken and none is None
rows_with_id(table, id) == SelectSeq(table, LAMBDA r : r.id = id)

get_user_by_id_at_least(user_id) ==
    LET found == SelectSeq(users, LAMBDA u : u.id >= user_id)
    IN  IF found # <<>>
        THEN LET user == Head(found)
             IN  "User ID: " \o str_int(user.id) \o "\n"
                     \o "Name: " \o user.name \o "\n"
                     \o "Email: " \o user.email \o "\n"
                     \o "Role: " \o user.role \o "\n"
                     \o "Active: " \o str_bool(user.active)
        ELSE "User with ID " \o str_int(user_id) \o " not found."

get_user_by_id(user_id) ==
    LET found == rows_with_id(users, user_id)
    IN  IF found # <<>>
        THEN LET user == Head(found)
             IN  "User ID: " \o str_int(user.id) \o "\n"
                     \o "Name: " \o user.name \o "\n"
                     \o "Email: " \o user.email \o "\n"
                     \o "Role: " \o user.role \o "\n"
                     \o "Active: " \o str_bool(user.active)
        ELSE "User with ID " \o str_int(user_id) \o " not found."

user_row(user) ==
    "ID: " \o str_int(user.id) \o ", Name: " \o user.name \o ", "
        \o "Email: " \o user.email \o ", Role: " \o user.role \o "\n"

RECURSIVE user_rows(_)
user_rows(matching_users) ==
    IF matching_users = <<>> THEN ""
    ELSE user_row(Head(matching_users)) \o user_rows(Tail(matching_users))

get_user_by_name_case_sensitive(name) ==
    LET matching_users == SelectSeq(users, LAMBDA u : contains(name, u.name))
    IN  IF matching_users = <<>>
        THEN "No users found matching '" \o name \o "'."
        ELSE "Found " \o str_int(Len(matching_users)) \o " user(s):\n\n"
                 \o user_rows(matching_users)

get_user_by_name_rejecting_empty(name) ==
    LET name_lower == lower(name)
        matching_users ==
            SelectSeq(users, LAMBDA u :
                name # "" /\ contains(name_lower, lower(u.name)))
    IN  IF matching_users = <<>>
        THEN "No users found matching '" \o name \o "'."
        ELSE "Found " \o str_int(Len(matching_users)) \o " user(s):\n\n"
                 \o user_rows(matching_users)

get_user_by_name(name) ==
    LET name_lower == lower(name)
        matching_users ==
            SelectSeq(users, LAMBDA u : contains(name_lower, lower(u.name)))
    IN  IF matching_users = <<>>
        THEN "No users found matching '" \o name \o "'."
        ELSE "Found " \o str_int(Len(matching_users)) \o " user(s):\n\n"
                 \o user_rows(matching_users)

get_product_by_id(product_id) ==
    LET found == rows_with_id(products, product_id)
    IN  IF found # <<>>
        THEN LET product == Head(found)
             IN  "Product ID: " \o str_int(product.id) \o "\n"
                     \o "Name: " \o product.name \o "\n"
                     \o "Price: $" \o repr_float(product.price) \o "\n"
                     \o "Stock: " \o str_int(product.stock) \o " units\n"
                     \o "Category: " \o product.category
        ELSE "Product with ID " \o str_int(product_id) \o " not found."

product_row(product) ==
    "ID: " \o str_int(product.id) \o ", Name: " \o product.name \o ", "
        \o "Price: $" \o repr_float(product.price)
        \o ", Stock: " \o str_int(product.stock) \o "\n"

RECURSIVE product_rows(_)
product_rows(matching_products) ==
    IF matching_products = <<>> THEN ""
    ELSE product_row(Head(matching_products))
             \o product_rows(Tail(matching_products))

search_products_twice(query) ==
    LET query_lower == lower(query)
        by_name ==
            SelectSeq(products, LAMBDA p : contains(query_lower, lower(p.name)))
        by_category ==
            SelectSeq(products,
                      LAMBDA p : contains(query_lower, lower(p.category)))
        matching_products == by_name \o by_category
    IN  IF matching_products = <<>>
        THEN "No products found matching '" \o query \o "'."
        ELSE "Found " \o str_int(Len(matching_products)) \o " product(s):\n\n"
                 \o product_rows(matching_products)

search_products(query) ==
    LET query_lower == lower(query)
        matching_products ==
            SelectSeq(products, LAMBDA p :
                \/ contains(query_lower, lower(p.name))
                \/ contains(query_lower, lower(p.category)))
    IN  IF matching_products = <<>>
        THEN "No products found matching '" \o query \o "'."
        ELSE "Found " \o str_int(Len(matching_products)) \o " product(s):\n\n"
                 \o product_rows(matching_products)

order_row_joining_order_id(order) ==
    LET found == rows_with_id(products, order.id)
        product_name == IF found # <<>> THEN Head(found).name ELSE "Unknown"
    IN  "Order ID: " \o str_int(order.id) \o ", Product: " \o product_name
            \o ", " \o "Quantity: " \o str_int(order.quantity)
            \o ", Status: " \o order.status \o "\n"

order_row(order) ==
    LET found == rows_with_id(products, order.product_id)
        product_name == IF found # <<>> THEN Head(found).name ELSE "Unknown"
    IN  "Order ID: " \o str_int(order.id) \o ", Product: " \o product_name
            \o ", " \o "Quantity: " \o str_int(order.quantity)
            \o ", Status: " \o order.status \o "\n"

RECURSIVE order_rows(_)
order_rows(user_orders) ==
    IF user_orders = <<>> THEN ""
    ELSE order_row(Head(user_orders)) \o order_rows(Tail(user_orders))

get_user_orders_inner_join(user_id) ==
    LET user_orders ==
            SelectSeq(orders, LAMBDA o :
                /\ o.user_id = user_id
                /\ rows_with_id(products, o.product_id) # <<>>)
    IN  IF user_orders = <<>>
        THEN "No orders found for user ID " \o str_int(user_id) \o "."
        ELSE "Orders for User ID " \o str_int(user_id) \o ":\n\n"
                 \o order_rows(user_orders)

\* get_user_orders looking the user up before the orders
get_user_orders_checking_user(user_id) ==
    LET user_orders == SelectSeq(orders, LAMBDA o : o.user_id = user_id)
    IN  IF rows_with_id(users, user_id) = <<>>
        THEN "User with ID " \o str_int(user_id) \o " not found."
        ELSE IF user_orders = <<>>
        THEN "No orders found for user ID " \o str_int(user_id) \o "."
        ELSE "Orders for User ID " \o str_int(user_id) \o ":\n\n"
                 \o order_rows(user_orders)

get_user_orders(user_id) ==
    LET user_orders == SelectSeq(orders, LAMBDA o : o.user_id = user_id)
    IN  IF user_orders = <<>>
        THEN "No orders found for user ID " \o str_int(user_id) \o "."
        ELSE "Orders for User ID " \o str_int(user_id) \o ":\n\n"
                 \o order_rows(user_orders)

check_stock_strict(product_id, quantity) ==
    LET found == rows_with_id(products, product_id)
    IN  IF found = <<>>
        THEN "Product with ID " \o str_int(product_id) \o " not found."
        ELSE LET product == Head(found)
             IN  IF product.stock > quantity
                 THEN "[v] " \o product.name \o " has "
                          \o str_int(product.stock) \o " units in stock. "
                          \o str_int(quantity) \o " units available."
                 ELSE "[x] " \o product.name \o " only has "
                          \o str_int(product.stock)
                          \o " units in stock. Cannot fulfill order for "
                          \o str_int(quantity) \o " units."

\* check_stock refusing a quantity that is not positive
check_stock_validating(product_id, quantity) ==
    LET found == rows_with_id(products, product_id)
    IN  IF found = <<>>
        THEN "Product with ID " \o str_int(product_id) \o " not found."
        ELSE IF quantity <= 0
        THEN "Error: quantity must be positive."
        ELSE LET product == Head(found)
             IN  IF product.stock >= quantity
                 THEN "[v] " \o product.name \o " has "
                          \o str_int(product.stock) \o " units in stock. "
                          \o str_int(quantity) \o " units available."
                 ELSE "[x] " \o product.name \o " only has "
                          \o str_int(product.stock)
                          \o " units in stock. Cannot fulfill order for "
                          \o str_int(quantity) \o " units."

check_stock(product_id, quantity) ==
    LET found == rows_with_id(products, product_id)
    IN  IF found = <<>>
        THEN "Product with ID " \o str_int(product_id) \o " not found."
        ELSE LET product == Head(found)
             IN  IF product.stock >= quantity
                 THEN "[v] " \o product.name \o " has "
                          \o str_int(product.stock) \o " units in stock. "
                          \o str_int(quantity) \o " units available."
                 ELSE "[x] " \o product.name \o " only has "
                          \o str_int(product.stock)
                          \o " units in stock. Cannot fulfill order for "
                          \o str_int(quantity) \o " units."

RECURSIVE inventory_sum_of_prices(_)
inventory_sum_of_prices(ps) ==
    IF ps = <<>> THEN Zero
    ELSE RAdd(Head(ps).price, inventory_sum_of_prices(Tail(ps)))

\* sum(p["price"] * p["stock"] for p in self._products)
RECURSIVE inventory_sum(_)
inventory_sum(ps) ==
    IF ps = <<>> THEN Zero
    ELSE RAdd(RMul(Head(ps).price, Rat(Head(ps).stock, 1)),
              inventory_sum(Tail(ps)))

inventory_row(product) ==
    LET value == RMul(product.price, Rat(product.stock, 1))
    IN  product.name \o ": " \o str_int(product.stock) \o " units x $"
            \o repr_float(product.price) \o " = $" \o format_2f(value) \o "\n"

RECURSIVE inventory_rows(_)
inventory_rows(ps) ==
    IF ps = <<>> THEN ""
    ELSE inventory_row(Head(ps)) \o inventory_rows(Tail(ps))

get_total_inventory_value ==
    LET total_value == inventory_sum(products)
    IN  "Inventory Summary:\n\n" \o inventory_rows(products)
            \o "\nTotal Inventory Value: $" \o format_2f(total_value)

---------------------------------------------------------------------------
(* WeatherPlugin *)

WeatherPlugin_weather_data ==
    ("new york" :> [temp |-> 72, condition |-> "Partly Cloudy", humidity |-> 65])
    @@ ("london" :> [temp |-> 59, condition |-> "Rainy", humidity |-> 80])
    @@ ("tokyo" :> [temp |-> 68, condition |-> "Sunny", humidity |-> 55])
    @@ ("paris" :> [temp |-> 64, condition |-> "Cloudy", humidity |-> 70])
    @@ ("sydney" :> [temp |-> 77, condition |-> "Sunny", humidity |-> 60])
    @@ ("mumbai" :> [temp |-> 86, condition |-> "Humid", humidity |-> 85])
    @@ ("dubai" :> [temp |-> 95, condition |-> "Hot and Sunny", humidity |-> 45])

randint_half_open(a, b) == a..(b - 1)

\* random.randint(a, b): the values it can give
randint(a, b) == a..b

\* random.choice(seq): the positions it can pick
choice(seq) == DOMAIN seq

\* The random module is a source rnd: the sequence of the values it gives
\* the call, in the order the call asks for them (a choice is the position
\* picked).  A call consumes all of rnd, and each value lies in the range
\* the call asks it from.

current_conditions == <<"Sunny", "Cloudy", "Rainy", "Partly Cloudy">>

forecast_conditions_with_snow ==
    <<"Sunny", "Cloudy", "Rainy", "Partly Cloudy", "Stormy", "Snowy">>

forecast_conditions == <<"Sunny", "Cloudy", "Rainy", "Partly Cloudy", "Stormy">>

weather_text(city, temp, condition, humidity) ==
    "Weather in " \o title(city) \o ":\n"
        \o "Temperature: " \o str_int(temp) \o "*F\n"
        \o "Condition: " \o condition \o "\n"
        \o "Humidity: " \o str_int(humidity) \o "%"

get_current_weather_random_drawing_first(city, rnd) ==
    /\ Len(rnd) = 3
    /\ rnd[1] \in randint(50, 90)
    /\ rnd[2] \in choice(current_conditions)
    /\ rnd[3] \in randint(40, 90)

\* the random values get_current_weather(city) can be given
get_current_weather_random(city, rnd) ==
    IF lower(city) \in DOMAIN weather_data
    THEN rnd = <<>>
    ELSE /\ Len(rnd) = 3
         /\ rnd[1] \in randint(50, 90)
         /\ rnd[2] \in choice(current_conditions)
         /\ rnd[3] \in randint(40, 90)

get_current_weather(city, rnd) ==
    LET city_lower == lower(city)
    IN  IF city_lower \in DOMAIN weather_data
        THEN LET weather == weather_data[city_lower]
             IN  weather_text(city, weather.temp, weather.condition,
                              weather.humidity)
        ELSE weather_text(city, rnd[1], current_conditions[rnd[2]], rnd[3])

\* the random values get_forecast can be given: three per day
get_forecast_random(rnd) ==
    /\ Len(rnd) = 9
    /\ \A day \in 1..3 :
          /\ rnd[3 * day - 2] \in randint(65, 85)
          /\ rnd[3 * day - 1] \in randint(50, 65)
          /\ rnd[3 * day] \in choice(forecast_conditions)

\* the days of a forecast with the two temperatures of a day exchanged
RECURSIVE forecast_days_exchanged(_, _)
forecast_days_exchanged(day, rnd) ==
    IF day >= 4 THEN ""
    ELSE LET temp_high == rnd[3 * day - 1]
             temp_low == rnd[3 * day - 2]
             condition == forecast_conditions[rnd[3 * day]]
         IN  "Day " \o str_int(day) \o ": High " \o str_int(temp_high)
                 \o "*F, Low " \o str_int(temp_low) \o "*F - " \o condition
                 \o "\n" \o forecast_days_exchanged(day + 1, rnd)

\* the lines of the days day..3
RECURSIVE forecast_days(_, _)
forecast_days(day, rnd) ==
    IF day >= 4 THEN ""
    ELSE LET temp_high == rnd[3 * day - 2]
             temp_low == rnd[3 * day - 1]
             condition == forecast_conditions[rnd[3 * day]]
         IN  "Day " \o str_int(day) \o ": High " \o str_int(temp_high)
                 \o "*F, Low " \o str_int(temp_low) \o "*F - " \o condition
                 \o "\n" \o forecast_days(day + 1, rnd)

\* a forecast whose first day takes the condition the table stores
get_forecast_from_record(city, rnd) ==
    IF lower(city) \in DOMAIN weather_data
    THEN "3-Day Forecast for " \o title(city) \o ":\n"
             \o "Day 1: High " \o str_int(rnd[1]) \o "*F, Low " \o str_int(rnd[2])
             \o "*F - " \o weather_data[lower(city)].condition \o "\n"
             \o forecast_days(2, rnd)
    ELSE "3-Day Forecast for " \o title(city) \o ":\n" \o forecast_days(1, rnd)

get_forecast(city, rnd) ==
    "3-Day Forecast for " \o title(city) \o ":\n" \o forecast_days(1, rnd)

\* how many random values the first get_current_weather of compare_weather
\* consumes
first_draws(city1) == IF lower(city1) \in DOMAIN weather_data THEN 0 ELSE 3

compare_weather_random(city1, city2, rnd) ==
    /\ first_draws(city1) <= Len(rnd)
    /\ get_current_weather_random(city1, SubSeq(rnd, 1, first_draws(city1)))
    /\ get_current_weather_random(
           city2, SubSeq(rnd, first_draws(city1) + 1, Len(rnd)))

compare_weather_reversed(city1, city2, rnd) ==
    LET weather1 == get_current_weather(city1, SubSeq(rnd, 1, first_draws(city1)))
        weather2 == get_current_weather(
                        city2, SubSeq(rnd, first_draws(city1) + 1, Len(rnd)))
    IN  "Weather Comparison:\n\n" \o weather2 \o "\n\nvs\n\n" \o weather1

compare_weather(city1, city2, rnd) ==
    LET weather1 == get_current_weather(city1, SubSeq(rnd, 1, first_draws(city1)))
        weather2 == get_current_weather(
                        city2, SubSeq(rnd, first_draws(city1) + 1, Len(rnd)))
    IN  "Weather Comparison:\n\n" \o weather1 \o "\n\nvs\n\n" \o weather2

should_bring_umbrella_case_sensitive(city) ==
    LET city_lower == lower(city)
    IN  IF city_lower \in DOMAIN weather_data
        THEN LET condition == weather_data[city_lower].condition
             IN  IF contains("rain", condition) \/ contains("storm", condition)
                 THEN "Yes, bring an umbrella! It's "
                          \o weather_data[city_lower].condition \o " in "
                          \o title(city) \o "."
                 ELSE "No umbrella needed. It's "
                          \o weather_data[city_lower].condition \o " in "
                          \o title(city) \o "."
        ELSE "Weather data not available for " \o city
                 \o ", but it's always good to be prepared!"

should_bring_umbrella(city) ==
    LET city_lower == lower(city)
    IN  IF city_lower \in DOMAIN weather_data
        THEN LET condition == lower(weather_data[city_lower].condition)
             IN  IF contains("rain", condition) \/ contains("storm", condition)
                 THEN "Yes, bring an umbrella! It's "
                          \o weather_data[city_lower].condition \o " in "
                          \o title(city) \o "."
                 ELSE "No umbrella needed. It's "
                          \o weather_data[city_lower].condition \o " in "
                          \o title(city) \o "."
        ELSE "Weather data not available for " \o city
                 \o ", but it's always good to be prepared!"

---------------------------------------------------------------------------
(* The arguments the calls are made with *)

Nums == {Rat(k, d) : k \in (0 - MaxNum)..MaxNum, d \in {1, 2}}

Seqs(t) == {t[i] : i \in DOMAIN t}

TableIds ==
    {r.id : r \in Seqs(DatabasePlugin_users)}
        \cup {r.id : r \in Seqs(DatabasePlugin_products)}
        \cup {r.id : r \in Seqs(DatabasePlugin_orders)}

Ids == {0 - 1, 0} \cup {id + m : id \in TableIds, m \in (0 - IdMargin)..IdMargin}

Quantities ==
    {0 - 1, 0}
        \cup {r.stock + m : r \in Seqs(DatabasePlugin_products),
                            m \in (0 - IdMargin)..IdMargin}

Substrings(s) ==
    {SubSeq(s, p[1], p[2]) :
        p \in {q \in (1..Len(s)) \X (0..Len(s)) :
                  q[2] - q[1] + 1 \in 0..MaxQueryLen}}

CaseVariants(S) == S \cup {lower(q) : q \in S} \cup {upper(q) : q \in S}

NameQueries ==
    CaseVariants(UNION {Substrings(r.name) : r \in Seqs(DatabasePlugin_users)})
        \cup {"alice", "ALICE", "Alice Johnson", "bob smith", "Smith Bob",
              "xyz", "alice@example.com"}

ProductQueries ==
    CaseVariants(UNION {Substrings(r.name) \cup Substrings(r.category) :
                            r \in Seqs(DatabasePlugin_products)})
        \cup {"desk", "DESK", "Desk Chair", "electronics", "FURNITURE",
              "laptop", "xyz", "101"}

Cities ==
    CaseVariants(DOMAIN WeatherPlugin_weather_data)
        \cup {title(c) : c \in DOMAIN WeatherPlugin_weather_data}
        \cup {"atlantis", "Atlantis", ""}

CompareCities == {"London", "tokyo", "PARIS", "Atlantis", ""}

ForecastCities == {"London", "atlantis"}

\* the random sources tried: the ends of each range, every condition
CurrentSources ==
    {<<>>} \cup
    {<<t, c, h>> : t \in {50, 90}, c \in choice(current_conditions),
                   h \in {40, 90}}

CompareSources ==
    CurrentSources \cup
    {a \o b : a \in CurrentSources \ {<<>>}, b \in CurrentSources \ {<<>>}}

DaySources ==
    {<<hi, lo, c>> : hi \in {65, 85}, lo \in {50, 65},
                     c \in choice(forecast_conditions)}

ForecastSources == {a \o b \o c : a \in DaySources, b \in DaySources, c \in DaySources}

---------------------------------------------------------------------------
(* The calls *)

\* the threads that call the plugins at the same time
NumThreads == 2

Threads == 1..NumThreads

\* a thread that is in no call
Resting ==
    [pc |-> "idle", op |-> "", int |-> <<>>, str |-> <<>>, i |-> 0,
     refs |-> <<>>, k |-> 0, flag |-> FALSE, num |-> Zero, text |-> ""]

ByIdOps == {"get_user_by_id", "get_product_by_id"}

NotWatching ==
    [on |-> FALSE, any |-> FALSE, phase |-> 0, op |-> "", id |-> 0, text |-> "",
     args |-> NoArgs, result |-> NoResult]
Watching == [NotWatching EXCEPT !.on = TRUE]
WatchingAny == [Watching EXCEPT !.any = TRUE]

\* watch follows one call, a by-id lookup or (any) whichever call comes
\* first: phase 1 once it is made, 2 once another call has been made after
\* it, 3 once it is made again after that
watched(o, a, r) ==
    IF ~watch.on THEN watch
    ELSE IF watch.phase = 0 THEN
        IF watch.any \/ o \in ByIdOps
        THEN [watch EXCEPT !.phase = 1, !.op = o,
                           !.id = IF a.int # <<>> THEN a.int[1] ELSE 0,
                           !.text = r.text, !.args = a, !.result = r]
        ELSE watch
    ELSE IF o = watch.op /\ a = watch.args THEN
        IF watch.phase >= 2 THEN [watch EXCEPT !.phase = 3] ELSE watch
    ELSE IF watch.phase = 1 THEN [watch EXCEPT !.phase = 2] ELSE watch

\* a call is made when the caller holds no result
Idle == op = ""

\* what a call leaves: the operation, its arguments, its result, its draws
Returns(o, a, r, d) ==
    /\ op' = o
    /\ args' = a
    /\ result' = r
    /\ draws' = d
    /\ watch' = watched(o, a, r)
    /\ UNCHANGED <<threads, script>>

MathAdd(number1, number2) ==
    /\ Idle
    /\ Returns("add", NumArgs(<<number1, number2>>), add(number1, number2), <<>>)
    /\ UNCHANGED tables

MathSubtract(number1, number2) ==
    /\ Idle
    /\ Returns("subtract", NumArgs(<<number1, number2>>),
               subtract(number1, number2), <<>>)
    /\ UNCHANGED tables

MathMultiply(number1, number2) ==
    /\ Idle
    /\ Returns("multiply", NumArgs(<<number1, number2>>),
               multiply(number1, number2), <<>>)
    /\ UNCHANGED tables

MathDivide(number1, number2) ==
    /\ Idle
    /\ Returns("divide", NumArgs(<<number1, number2>>),
               divide(number1, number2), <<>>)
    /\ UNCHANGED tables

MathPower(base, exponent) ==
    /\ Idle
    /\ Returns("power", NumArgs(<<base, exponent>>), power(base, exponent), <<>>)
    /\ UNCHANGED tables

MathSquareRoot(number) ==
    /\ Idle
    /\ Returns("square_root", NumArgs(<<number>>), square_root(number), <<>>)
    /\ UNCHANGED tables

MathPercentage(part, whole) ==
    /\ Idle
    /\ Returns("percentage", NumArgs(<<part, whole>>), percentage(part, whole),
               <<>>)
    /\ UNCHANGED tables

DbGetUserById(user_id) ==
    /\ Idle
    /\ Returns("get_user_by_id", IntArgs(<<user_id>>),
               Str(get_user_by_id(user_id)), <<>>)
    /\ UNCHANGED tables

DbGetUserByName_normalising(name) ==
    /\ Idle
    /\ Returns("get_user_by_name", StrArgs(<<name>>),
               Str(get_user_by_name(name)), <<>>)
    /\ users' = [i \in DOMAIN users |-> [users[i] EXCEPT !.name = lower(@)]]
    /\ UNCHANGED <<products, orders, weather_data>>

DbGetUserByName(name) ==
    /\ Idle
    /\ Returns("get_user_by_name", StrArgs(<<name>>),
               Str(get_user_by_name(name)), <<>>)
    /\ UNCHANGED tables

DbGetProductById(product_id) ==
    /\ Idle
    /\ Returns("get_product_by_id", IntArgs(<<product_id>>),
               Str(get_product_by_id(product_id)), <<>>)
    /\ UNCHANGED tables

DbSearchProducts(query) ==
    /\ Idle
    /\ Returns("search_products", StrArgs(<<query>>),
               Str(search_products(query)), <<>>)
    /\ UNCHANGED tables

DbGetUserOrders(user_id) ==
    /\ Idle
    /\ Returns("get_user_orders", IntArgs(<<user_id>>),
               Str(get_user_orders(user_id)), <<>>)
    /\ UNCHANGED tables

DbCheckStock_reserving(product_id, quantity) ==
    /\ Idle
    /\ Returns("check_stock", IntArgs(<<product_id, quantity>>),
               Str(check_stock(product_id, quantity)), <<>>)
    /\ products' =
           [i \in DOMAIN products |->
               IF products[i].id = product_id /\ products[i].stock >= quantity
               THEN [products[i] EXCEPT !.stock = @ - quantity]
               ELSE products[i]]
    /\ UNCHANGED <<users, orders, weather_data>>

DbCheckStock(product_id, quantity) ==
    /\ Idle
    /\ Returns("check_stock", IntArgs(<<product_id, quantity>>),
               Str(check_stock(product_id, quantity)), <<>>)
    /\ UNCHANGED tables

DbGetTotalInventoryValue ==
    /\ Idle
    /\ Returns("get_total_inventory_value", NoArgs,
               Str(get_total_inventory_value), <<>>)
    /\ UNCHANGED tables

WeatherGetCurrentWeather(city, rnd) ==
    /\ Idle
    /\ get_current_weather_random(city, rnd)
    /\ Returns("get_current_weather", StrArgs(<<city>>),
               Str(get_current_weather(city, rnd)), rnd)
    /\ UNCHANGED tables

WeatherGetForecast(city, rnd) ==
    /\ Idle
    /\ get_forecast_random(rnd)
    /\ Returns("get_forecast", StrArgs(<<city>>), Str(get_forecast(city, rnd)),
               rnd)
    /\ UNCHANGED tables

WeatherCompareWeather(city1, city2, rnd) ==
    /\ Idle
    /\ compare_weather_random(city1, city2, rnd)
    /\ Returns("compare_weather", StrArgs(<<city1, city2>>),
               Str(compare_weather(city1, city2, rnd)), rnd)
    /\ UNCHANGED tables

\* an answer for a city outside the table taken from a condition drawn at
\* random
WeatherShouldBringUmbrella_synthesizing(city) ==
    /\ Idle
    /\ \E c \in choice(current_conditions) :
           Returns("should_bring_umbrella", StrArgs(<<city>>),
                   Str(IF lower(city) \in DOMAIN weather_data
                       THEN should_bring_umbrella(city)
                       ELSE IF contains("rain", lower(current_conditions[c]))
                       THEN "Yes, bring an umbrella! It's "
                                \o current_conditions[c] \o " in "
                                \o title(city) \o "."
                       ELSE "No umbrella needed. It's "
                                \o current_conditions[c] \o " in "
                                \o title(city) \o "."),
                   <<c>>)
    /\ UNCHANGED tables

WeatherShouldBringUmbrella(city) ==
    /\ Idle
    /\ Returns("should_bring_umbrella", StrArgs(<<city>>),
               Str(should_bring_umbrella(city)), <<>>)
    /\ UNCHANGED tables

\* the caller (the kernel, calling functions on the model's behalf) takes
\* the result and is ready for the next call
Relay ==
    /\ op # ""
    /\ op' = ""
    /\ args' = NoArgs
    /\ result' = NoResult
    /\ draws' = <<>>
    /\ UNCHANGED <<tables, watch, threads, script>>

---------------------------------------------------------------------------
(* The plugins, called in any order with any arguments *)

InitTables ==
    /\ users = DatabasePlugin_users
    /\ products = DatabasePlugin_products
    /\ orders = DatabasePlugin_orders
    /\ weather_data = WeatherPlugin_weather_data

InitCall ==
    /\ op = ""
    /\ args = NoArgs
    /\ result = NoResult
    /\ draws = <<>>
    /\ threads = [t \in Threads |-> Resting]

\* no example script runs while the plugins are called directly
NoScript == [pc |-> "none"]

Init == InitTables /\ InitCall /\ watch = NotWatching /\ script = NoScript

Next ==
    \/ Idle /\ \E number1, number2 \in Nums : MathAdd(number1, number2)
    \/ Idle /\ \E number1, number2 \in Nums : MathSubtract(number1, number2)
    \/ Idle /\ \E number1, number2 \in Nums : MathMultiply(number1, number2)
    \/ Idle /\ \E number1, number2 \in Nums : MathDivide(number1, number2)
    \/ Idle /\ \E base, exponent \in Nums : MathPower(base, exponent)
    \/ Idle /\ \E number \in Nums : MathSquareRoot(number)
    \/ Idle /\ \E part, whole \in Nums : MathPercentage(part, whole)
    \/ Idle /\ \E user_id \in Ids : DbGetUserById(user_id)
    \/ Idle /\ \E name \in NameQueries : DbGetUserByName(name)
    \/ Idle /\ \E product_id \in Ids : DbGetProductById(product_id)
    \/ Idle /\ \E query \in ProductQueries : DbSearchProducts(query)
    \/ Idle /\ \E user_id \in Ids : DbGetUserOrders(user_id)
    \/ Idle /\ \E product_id \in Ids, quantity \in Quantities :
                   DbCheckStock(product_id, quantity)
    \/ Idle /\ DbGetTotalInventoryValue
    \/ Idle /\ \E city \in Cities, rnd \in CurrentSources :
                   WeatherGetCurrentWeather(city, rnd)
    \/ Idle /\ \E city \in ForecastCities, rnd \in ForecastSources :
                   WeatherGetForecast(city, rnd)
    \/ Idle /\ \E city1, city2 \in CompareCities, rnd \in CompareSources :
                   WeatherCompareWeather(city1, city2, rnd)
    \/ Idle /\ \E city \in Cities : WeatherShouldBringUmbrella(city)
    \/ Relay

Spec == Init /\ [][Next]_vars

---------------------------------------------------------------------------
(* The same plugins with a lookup under watch: every operation is called,  *)
(* the by-id lookups with every id, the others with a few arguments each.  *)

WatchedNums == {Rat(0 - 1, 1), Zero, Rat(4, 1)}
WatchedQueries == {"", "ali", "desk", "xyz"}
WatchedCities == {"London", "atlantis"}
WatchedSources == {<<>>, <<50, 1, 40>>, <<90, 3, 90>>}
WatchedForecasts ==
    {<<65, 65, 5, 85, 50, 1, 70, 60, 3>>, <<70, 60, 3, 65, 65, 5, 85, 50, 1>>}

InitWatched == InitTables /\ InitCall /\ watch = Watching /\ script = NoScript

NextWatched ==
    \/ Idle /\ \E number1, number2 \in WatchedNums : MathAdd(number1, number2)
    \/ Idle /\ \E number1, number2 \in WatchedNums :
                   MathSubtract(number1, number2)
    \/ Idle /\ \E number1, number2 \in WatchedNums :
                   MathMultiply(number1, number2)
    \/ Idle /\ \E number1, number2 \in WatchedNums : MathDivide(number1, number2)
    \/ Idle /\ \E base, exponent \in WatchedNums : MathPower(base, exponent)
    \/ Idle /\ \E number \in WatchedNums : MathSquareRoot(number)
    \/ Idle /\ \E part, whole \in WatchedNums : MathPercentage(part, whole)
    \/ Idle /\ \E user_id \in Ids : DbGetUserById(user_id)
    \/ Idle /\ \E name \in WatchedQueries : DbGetUserByName(name)
    \/ Idle /\ \E product_id \in Ids : DbGetProductById(product_id)
    \/ Idle /\ \E query \in WatchedQueries : DbSearchProducts(query)
    \/ Idle /\ \E user_id \in {1, 3} : DbGetUserOrders(user_id)
    \/ Idle /\ \E product_id \in {101, 107}, quantity \in {1, 15, 16} :
                   DbCheckStock(product_id, quantity)
    \/ Idle /\ DbGetTotalInventoryValue
    \/ Idle /\ \E city \in WatchedCities, rnd \in WatchedSources :
                   WeatherGetCurrentWeather(city, rnd)
    \/ Idle /\ \E city \in WatchedCities, rnd \in WatchedForecasts :
                   WeatherGetForecast(city, rnd)
    \/ Idle /\ \E city1, city2 \in WatchedCities, rnd \in WatchedSources :
                   WeatherCompareWeather(city1, city2, rnd)
    \/ Idle /\ \E city \in WatchedCities : WeatherShouldBringUmbrella(city)
    \/ Relay

SpecWatched == InitWatched /\ [][NextWatched]_vars

\* the same calls with the first call under watch, whichever it is
InitTwice == InitTables /\ InitCall /\ watch = WatchingAny /\ script = NoScript

SpecTwice == InitTwice /\ [][NextWatched]_vars

---------------------------------------------------------------------------
(* The order lookup over other order tables: any of the orders may name a  *)
(* product id that no product has.                                         *)

\* ids that no product has: none, an order's id, the one past the last
DanglingIds == {0, 1001, 107}

\* the order table with the orders at the positions of dangling naming the
\* product id
OrderTables ==
    {[i \in DOMAIN DatabasePlugin_orders |->
         IF i \in dangling
         THEN [DatabasePlugin_orders[i] EXCEPT !.product_id = id]
         ELSE DatabasePlugin_orders[i]] :
        dangling \in SUBSET DOMAIN DatabasePlugin_orders, id \in DanglingIds}

InitOrders ==
    /\ users = DatabasePlugin_users
    /\ products = DatabasePlugin_products
    /\ orders \in OrderTables
    /\ weather_data = WeatherPlugin_weather_data
    /\ InitCall
    /\ watch = NotWatching
    /\ script = NoScript

NextOrders ==
    \/ Idle /\ \E user_id \in Ids : DbGetUserOrders(user_id)
    \/ Relay

SpecOrders == InitOrders /\ [][NextOrders]_vars

---------------------------------------------------------------------------
(* The current weather with every value the random module can give         *)

FallbackCities == {"Atlantis", "el dorado", "London"}

\* every triple of the ranges of lines 49-52, and the empty source of a
\* call that draws nothing
FallbackSources ==
    {<<>>} \cup {<<t, c, h>> : t \in 50..90, c \in 1..4, h \in 40..90}

NextFallback ==
    \/ Idle /\ \E city \in FallbackCities, rnd \in FallbackSources :
                   WeatherGetCurrentWeather(city, rnd)
    \/ Relay

SpecFallback == Init /\ [][NextFallback]_vars

---------------------------------------------------------------------------
(* The plugins called by several threads at once: each thread calls        *)
(* through a plugin instance of its own (a kernel gets new instances), the *)
(* tables are class attributes and so the same for all, and a call runs    *)
(* one read of a table at a time, other threads running in between.  A row *)
(* a call holds is a reference into the table: refs keeps its position.    *)

caller == <<op, args, result, draws, watch, script>>
\* what a step of a script leaves as it is, the tables apart
caller_but_script == <<op, args, result, draws, watch, threads>>

\* the calls the threads make: the operations that draw no random value
ThreadCalls ==
    {[op |-> "get_user_by_id", int |-> <<2>>, str |-> <<>>],
     [op |-> "get_user_by_id", int |-> <<6>>, str |-> <<>>],
     [op |-> "check_stock", int |-> <<102, 50>>, str |-> <<>>],
     [op |-> "check_stock", int |-> <<102, 51>>, str |-> <<>>],
     [op |-> "get_user_orders", int |-> <<1>>, str |-> <<>>],
     [op |-> "get_total_inventory_value", int |-> <<>>, str |-> <<>>],
     [op |-> "should_bring_umbrella", int |-> <<>>, str |-> <<"London">>],
     [op |-> "get_current_weather", int |-> <<>>, str |-> <<"tokyo">>]}

\* where a call starts
first_pc(o) ==
    CASE o \in {"get_user_by_id", "check_stock"} -> "next"
      [] o = "get_user_orders" -> "select"
      [] o = "get_total_inventory_value" -> "sum"
      [] o \in {"should_bring_umbrella", "get_current_weather"} -> "lookup"

\* the table a by-id lookup goes through
table_of(o) == IF o = "get_user_by_id" THEN users ELSE products

Becomes(t, me) == threads' = [threads EXCEPT ![t] = me]

ThreadCall(t, call) ==
    /\ threads[t].pc = "idle"
    /\ Becomes(t, [Resting EXCEPT !.pc = first_pc(call.op), !.op = call.op,
                                  !.int = call.int, !.str = call.str, !.i = 1])
    /\ UNCHANGED <<tables, caller>>

\* next((r for r in table if r["id"] == id), None), one row read at a time
ThreadNext(t) ==
    LET me == threads[t]
        table == table_of(me.op)
    IN  /\ me.pc = "next"
        /\ Becomes(t, IF me.i > Len(table)
                      THEN [me EXCEPT !.pc = "found"]
                      ELSE IF table[me.i].id = me.int[1]
                      THEN [me EXCEPT !.pc = "found", !.refs = <<me.i>>]
                      ELSE [me EXCEPT !.i = @ + 1])
        /\ UNCHANGED <<tables, caller>>

\* what follows the lookup: the record or the not-found text of
\* get_user_by_id, the not-found text or the comparison of check_stock
ThreadFound(t) ==
    LET me == threads[t]
    IN  /\ me.pc = "found"
        /\ Becomes(t,
             IF me.op = "get_user_by_id"
             THEN IF me.refs # <<>>
                  THEN LET user == users[me.refs[1]]
                       IN  [me EXCEPT !.pc = "done", !.text =
                               "User ID: " \o str_int(user.id) \o "\n"
                                   \o "Name: " \o user.name \o "\n"
                                   \o "Email: " \o user.email \o "\n"
                                   \o "Role: " \o user.role \o "\n"
                                   \o "Active: " \o str_bool(user.active)]
                  ELSE [me EXCEPT !.pc = "done", !.text =
                           "User with ID " \o str_int(me.int[1]) \o " not found."]
             ELSE IF me.refs = <<>>
                  THEN [me EXCEPT !.pc = "done", !.text =
                           "Product with ID " \o str_int(me.int[1])
                               \o " not found."]
                  ELSE [me EXCEPT !.pc = "format", !.flag =
                           products[me.refs[1]].stock >= me.int[2]])
        /\ UNCHANGED <<tables, caller>>

ThreadFormat_reserving(t) ==
    LET me == threads[t]
    IN  /\ me.pc = "format"
        /\ Becomes(t, [me EXCEPT !.pc = "done", !.text =
             CASE me.op = "check_stock" ->
                      LET product == products[me.refs[1]]
                      IN  IF me.flag
                          THEN "[v] " \o product.name \o " has "
                                   \o str_int(product.stock) \o " units in stock. "
                                   \o str_int(me.int[2]) \o " units available."
                          ELSE "[x] " \o product.name \o " only has "
                                   \o str_int(product.stock)
                                   \o " units in stock. Cannot fulfill order for "
                                   \o str_int(me.int[2]) \o " units."
               [] me.op = "should_bring_umbrella" ->
                      (IF me.flag THEN "Yes, bring an umbrella! It's "
                                  ELSE "No umbrella needed. It's ")
                          \o weather_data[lower(me.str[1])].condition \o " in "
                          \o title(me.str[1]) \o "."
               [] me.op = "get_current_weather" ->
                      LET weather == weather_data[lower(me.str[1])]
                      IN  weather_text(me.str[1], weather.temp, weather.condition,
                                       weather.humidity)])
        /\ products' =
               [i \in DOMAIN products |->
                   IF me.op = "check_stock" /\ me.flag /\ i = me.refs[1]
                   THEN [products[i] EXCEPT !.stock = @ - me.int[2]]
                   ELSE products[i]]
        /\ UNCHANGED <<users, orders, weather_data, caller>>

\* the text a call builds from the row or record it holds
ThreadFormat(t) ==
    LET me == threads[t]
    IN  /\ me.pc = "format"
        /\ Becomes(t, [me EXCEPT !.pc = "done", !.text =
             CASE me.op = "check_stock" ->
                      LET product == products[me.refs[1]]
                      IN  IF me.flag
                          THEN "[v] " \o product.name \o " has "
                                   \o str_int(product.stock) \o " units in stock. "
                                   \o str_int(me.int[2]) \o " units available."
                          ELSE "[x] " \o product.name \o " only has "
                                   \o str_int(product.stock)
                                   \o " units in stock. Cannot fulfill order for "
                                   \o str_int(me.int[2]) \o " units."
               [] me.op = "should_bring_umbrella" ->
                      (IF me.flag THEN "Yes, bring an umbrella! It's "
                                  ELSE "No umbrella needed. It's ")
                          \o weather_data[lower(me.str[1])].condition \o " in "
                          \o title(me.str[1]) \o "."
               [] me.op = "get_current_weather" ->
                      LET weather == weather_data[lower(me.str[1])]
                      IN  weather_text(me.str[1], weather.temp, weather.condition,
                                       weather.humidity)])
        /\ UNCHANGED <<tables, caller>>

\* [o for o in self._orders if o["user_id"] == user_id], one order read at a
\* time, and what follows it: the no-orders text or the heading
ThreadSelect(t) ==
    LET me == threads[t]
        refs == IF orders[me.i].user_id = me.int[1]
                THEN Append(me.refs, me.i) ELSE me.refs
    IN  /\ me.pc = "select"
        /\ Becomes(t,
             IF me.i < Len(orders) THEN [me EXCEPT !.refs = refs, !.i = @ + 1]
             ELSE IF refs = <<>>
             THEN [me EXCEPT !.pc = "done", !.text =
                      "No orders found for user ID " \o str_int(me.int[1]) \o "."]
             ELSE [me EXCEPT !.pc = "join", !.refs = refs, !.k = 1, !.i = 1,
                             !.text = "Orders for User ID " \o str_int(me.int[1])
                                          \o ":\n\n"])
        /\ UNCHANGED <<tables, caller>>

\* the loop over the user's orders: the product of the k-th is looked for
\* one product read at a time, and its row is added once it is found or
\* the products are exhausted
ThreadJoin(t) ==
    LET me == threads[t]
        order == orders[me.refs[me.k]]
        row(product_name) ==
            "Order ID: " \o str_int(order.id) \o ", Product: " \o product_name
                \o ", " \o "Quantity: " \o str_int(order.quantity)
                \o ", Status: " \o order.status \o "\n"
        added(product_name) ==
            IF me.k < Len(me.refs)
            THEN [me EXCEPT !.text = @ \o row(product_name), !.k = @ + 1, !.i = 1]
            ELSE [me EXCEPT !.text = @ \o row(product_name), !.pc = "done"]
    IN  /\ me.pc = "join"
        /\ Becomes(t, IF me.i > Len(products) THEN added("Unknown")
                      ELSE IF products[me.i].id = order.product_id
                      THEN added(products[me.i].name)
                      ELSE [me EXCEPT !.i = @ + 1])
        /\ UNCHANGED <<tables, caller>>

\* sum(p["price"] * p["stock"] for p in self._products), one product read at
\* a time
ThreadSum(t) ==
    LET me == threads[t]
        total == RAdd(me.num, RMul(products[me.i].price,
                                   Rat(products[me.i].stock, 1)))
    IN  /\ me.pc = "sum"
        /\ Becomes(t, IF me.i < Len(products)
                      THEN [me EXCEPT !.num = total, !.i = @ + 1]
                      ELSE [me EXCEPT !.num = total, !.pc = "rows", !.i = 1,
                                      !.text = "Inventory Summary:\n\n"])
        /\ UNCHANGED <<tables, caller>>

\* the loop over the products, one line added at a time, and the total
\* after the last
ThreadRows(t) ==
    LET me == threads[t]
        text == me.text \o inventory_row(products[me.i])
    IN  /\ me.pc = "rows"
        /\ Becomes(t, IF me.i < Len(products)
                      THEN [me EXCEPT !.text = text, !.i = @ + 1]
                      ELSE [me EXCEPT !.pc = "done", !.text =
                               text \o "\nTotal Inventory Value: $"
                                   \o format_2f(me.num)])
        /\ UNCHANGED <<tables, caller>>

\* city_lower in self._weather_data (the reading of a city that is no key is
\* drawn at random and is none of these calls)
ThreadLookup(t) ==
    LET me == threads[t]
    IN  /\ me.pc = "lookup"
        /\ me.op = "get_current_weather" => lower(me.str[1]) \in DOMAIN weather_data
        /\ Becomes(t,
             IF lower(me.str[1]) \in DOMAIN weather_data
             THEN [me EXCEPT !.pc = IF me.op = "should_bring_umbrella"
                                    THEN "condition" ELSE "format"]
             ELSE [me EXCEPT !.pc = "done", !.text =
                      "Weather data not available for " \o me.str[1]
                          \o ", but it's always good to be prepared!"])
        /\ UNCHANGED <<tables, caller>>

\* the stored condition read, lower-cased and searched
ThreadCondition(t) ==
    LET me == threads[t]
        condition == lower(weather_data[lower(me.str[1])].condition)
    IN  /\ me.pc = "condition"
        /\ Becomes(t, [me EXCEPT !.pc = "format", !.flag =
                          contains("rain", condition)
                              \/ contains("storm", condition)])
        /\ UNCHANGED <<tables, caller>>

\* the call returns its text and the thread is free for another call
ThreadReturn(t) ==
    /\ threads[t].pc = "done"
    /\ Becomes(t, Resting)
    /\ UNCHANGED <<tables, caller>>

NextThreads ==
    \/ \E t \in Threads, call \in ThreadCalls : ThreadCall(t, call)
    \/ \E t \in Threads : ThreadNext(t)
    \/ \E t \in Threads : ThreadFound(t)
    \/ \E t \in Threads : ThreadFormat(t)
    \/ \E t \in Threads : ThreadSelect(t)
    \/ \E t \in Threads : ThreadJoin(t)
    \/ \E t \in Threads : ThreadSum(t)
    \/ \E t \in Threads : ThreadRows(t)
    \/ \E t \in Threads : ThreadLookup(t)
    \/ \E t \in Threads : ThreadCondition(t)
    \/ \E t \in Threads : ThreadReturn(t)

SpecThreads == Init /\ [][NextThreads]_vars

---------------------------------------------------------------------------
(* The example scripts.  A script is a sequence of steps; `script` holds   *)
(* its position (pc) and its locals, and each step is an action.  What the *)
(* Azure OpenAI service answers is not computed: a completion is one of    *)
(* Responses.                                                              *)

\* what a completion may be, the empty text included
Responses == {"", "It is an interface.", "Sure."}

(* step1_basic_chat.main.  os.getenv gives None (here <<>>) for a variable *)
(* that is not set and <<value>> for one that is.                          *)

InitStep1 ==
    /\ InitTables
    /\ InitCall
    /\ watch = NotWatching
    /\ script \in
           {[pc |-> "main", env |-> env, services |-> {}, functions |-> {},
             invoked |-> <<>>, printed |-> <<>>] :
               env \in [{"AZURE_OPENAI_API_KEY", "AZURE_OPENAI_ENDPOINT",
                         "AZURE_OPENAI_DEPLOYMENT_NAME"}
                            -> {<<>>, <<"">>, <<" ">>, <<"value">>}]}

\* main returning only when all three settings are missing
Step1Configure_all_missing ==
    /\ script.pc = "main"
    /\ LET api_key == script.env["AZURE_OPENAI_API_KEY"]
           endpoint == script.env["AZURE_OPENAI_ENDPOINT"]
           deployment_name == script.env["AZURE_OPENAI_DEPLOYMENT_NAME"]
           falsy(value) == value = <<>> \/ value = <<"">>
       IN  IF falsy(api_key) /\ falsy(endpoint) /\ falsy(deployment_name)
           THEN script' = [script EXCEPT
                    !.pc = "returned",
                    !.printed = Append(@, "Error: Missing Azure OpenAI config in .env file")]
           ELSE script' = [script EXCEPT !.pc = "configured"]
    /\ UNCHANGED <<tables, caller_but_script>>

\* lines 11-19: the settings are read and checked
Step1Configure ==
    /\ script.pc = "main"
    /\ LET api_key == script.env["AZURE_OPENAI_API_KEY"]
           endpoint == script.env["AZURE_OPENAI_ENDPOINT"]
           deployment_name == script.env["AZURE_OPENAI_DEPLOYMENT_NAME"]
           falsy(value) == value = <<>> \/ value = <<"">>
       IN  IF falsy(api_key) \/ falsy(endpoint) \/ falsy(deployment_name)
           THEN script' = [script EXCEPT
                    !.pc = "returned",
                    !.printed = Append(@, "Error: Missing Azure OpenAI config in .env file")]
           ELSE script' = [script EXCEPT !.pc = "configured"]
    /\ UNCHANGED <<tables, caller_but_script>>

\* lines 21-29: kernel.add_service(AzureChatCompletion(...))
Step1AddService ==
    /\ script.pc = "configured"
    /\ script' = [script EXCEPT
           !.pc = "service",
           !.services = @ \cup
               {[service_id |-> "chat",
                 api_key |-> script.env["AZURE_OPENAI_API_KEY"],
                 endpoint |-> script.env["AZURE_OPENAI_ENDPOINT"],
                 deployment_name |-> script.env["AZURE_OPENAI_DEPLOYMENT_NAME"]]}]
    /\ UNCHANGED <<tables, caller_but_script>>

\* lines 31-35: kernel.add_function(prompt=...)
Step1AddFunction ==
    /\ script.pc = "service"
    /\ script' = [script EXCEPT
           !.pc = "function",
           !.functions = @ \cup
               {[plugin_name |-> "ChatPlugin", function_name |-> "chat",
                 prompt |-> "What is AI/ML? Answer in 2 to 4 sentences."]}]
    /\ UNCHANGED <<tables, caller_but_script>>

\* lines 37-38: the prompt is invoked and the response printed
Step1Invoke ==
    /\ script.pc = "function"
    /\ \E chat_function \in script.functions, response \in Responses :
           script' = [script EXCEPT
               !.pc = "done",
               !.invoked = Append(@, chat_function.prompt),
               !.printed = Append(@, "Response: " \o response)]
    /\ UNCHANGED <<tables, caller_but_script>>

SpecStep1 ==
    InitStep1
        /\ [][Step1Configure \/ Step1AddService \/ Step1AddFunction
                  \/ Step1Invoke]_vars

---------------------------------------------------------------------------
(* step3_chat_history.main: three questions asked in one chat history.     *)
(* The three blocks of the source (lines 43-52, 55-64, 67-76) are the      *)
(* three turns of the loop below.                                          *)

InitStep3 ==
    /\ InitTables
    /\ InitCall
    /\ watch = NotWatching
    /\ script =
           [pc |-> "user", turn |-> 1, requests |-> <<>>, response |-> <<>>,
            chat_history |->
                <<[role |-> "system",
                   content |-> "You are a helpful AI assistant who explains technical concepts clearly and concisely."]>>]

\* lines 43, 55, 67: chat_history.add_user_message
Step3AddUserMessage ==
    /\ script.pc = "user"
    /\ LET user_messages == <<"What is a REST API?",
                              "Can you give me a simple example?",
                              "What HTTP methods are commonly used?">>
       IN  script' = [script EXCEPT
               !.pc = "request",
               !.chat_history =
                   Append(@, [role |-> "user", content |-> user_messages[script.turn]])]
    /\ UNCHANGED <<tables, caller_but_script>>

\* lines 45-48, 57-60, 69-72: the completion is requested with the history
\* as it is, and a response comes back
Step3GetChatMessageContent ==
    /\ script.pc = "request"
    /\ \E response \in Responses :
           script' = [script EXCEPT
               !.pc = "response",
               !.requests = Append(@, script.chat_history),
               !.response = <<response>>]
    /\ UNCHANGED <<tables, caller_but_script>>

\* the response kept out of the history when it is empty
Step3AddAssistantMessage_unless_empty ==
    /\ script.pc = "response"
    /\ script' = [script EXCEPT
           !.pc = IF script.turn = 3 THEN "show" ELSE "user",
           !.turn = @ + 1,
           !.response = <<>>,
           !.chat_history =
               IF script.response[1] = "" THEN @
               ELSE Append(@, [role |-> "assistant", content |-> script.response[1]])]
    /\ UNCHANGED <<tables, caller_but_script>>

\* lines 50-52, 62-64, 74-76: chat_history.add_assistant_message(str(response))
Step3AddAssistantMessage ==
    /\ script.pc = "response"
    /\ script' = [script EXCEPT
           !.pc = IF script.turn = 3 THEN "show" ELSE "user",
           !.turn = @ + 1,
           !.response = <<>>,
           !.chat_history =
               Append(@, [role |-> "assistant", content |-> script.response[1]])]
    /\ UNCHANGED <<tables, caller_but_script>>

\* lines 78-83: the whole history is printed
Step3ShowHistory ==
    /\ script.pc = "show"
    /\ script' = [script EXCEPT !.pc = "done"]
    /\ UNCHANGED <<tables, caller_but_script>>

SpecStep3 ==
    InitStep3
        /\ [][Step3AddUserMessage \/ Step3GetChatMessageContent
                  \/ Step3AddAssistantMessage \/ Step3ShowHistory]_vars

---------------------------------------------------------------------------
(* step7_memory_rag.example3_conversational_memory: a conversation whose   *)
(* first user messages are stored in a Chroma collection and retrieved     *)
(* when the user asks what is remembered.  The collection is the sequence  *)
(* of its documents with their ids; a query returns at most n_results of   *)
(* them, in the order of a similarity that is not computed here: any       *)
(* order.                                                                  *)

InitStep7 ==
    /\ InitTables
    /\ InitCall
    /\ watch = NotWatching
    /\ script =
           [pc |-> "user", turn |-> 1, memory_id |-> 0,
            memory_collection |-> <<>>, queries |-> <<>>, requests |-> <<>>,
            conversation_turns |->
                <<"Hi! My name is Bob and I'm a data scientist.",
                  "I'm working on a project about climate change prediction.",
                  "I use Python and TensorFlow for my work.",
                  "What do you remember about me?">>,
            chat_history |->
                <<[role |-> "system",
                   content |-> "You are a helpful assistant with memory. Remember important facts about the user."]>>]

\* lines 253-269: the user message is added; a question about memory
\* queries the collection and adds what it finds as a system message
Step7AddUserMessage ==
    /\ script.pc = "user"
    /\ LET user_message == script.conversation_turns[script.turn]
           count == Len(script.memory_collection)
           n_results == IF count < 5 THEN count ELSE 5
           with_user ==
               Append(script.chat_history,
                      [role |-> "user", content |-> user_message])
       IN  IF \/ contains("remember", lower(user_message))
              \/ contains("know about", lower(user_message))
           THEN \E found \in [1..n_results -> 1..count] :
                    /\ \A i, j \in 1..n_results : found[i] = found[j] => i = j
                    /\ LET documents ==
                               [i \in 1..n_results |->
                                    script.memory_collection[found[i]].document]
                           RECURSIVE join(_)
                           join(lines) ==
                               IF Len(lines) <= 1
                               THEN IF lines = <<>> THEN "" ELSE lines[1]
                               ELSE lines[1] \o "\n" \o join(Tail(lines))
                           memories == join(documents)
                       IN  script' = [script EXCEPT
                               !.pc = "request",
                               !.queries =
                                   Append(@, [turn |-> script.turn,
                                              documents |-> documents]),
                               !.chat_history =
                                   IF documents # <<>>
                                   THEN Append(with_user,
                                            [role |-> "system",
                                             content |->
                                                 "Here's what I remember about you:\n"
                                                     \o memories])
                                   ELSE with_user]
           ELSE script' = [script EXCEPT !.pc = "request",
                                         !.chat_history = with_user]
    /\ UNCHANGED <<tables, caller_but_script>>

\* lines 271-279: the completion is requested and the response added
Step7GetChatMessageContent ==
    /\ script.pc = "request"
    /\ \E response \in Responses :
           script' = [script EXCEPT
               !.pc = "store",
               !.requests = Append(@, script.chat_history),
               !.chat_history =
                   Append(@, [role |-> "assistant", content |-> response])]
    /\ UNCHANGED <<tables, caller_but_script>>

\* every user message stored, whatever memory_id is
Step7Store_every_message ==
    /\ script.pc = "store"
    /\ script' = [script EXCEPT
           !.pc = IF script.turn = Len(script.conversation_turns)
                  THEN "cleanup" ELSE "user",
           !.turn = @ + 1,
           !.memory_id = @ + 1,
           !.memory_collection =
               Append(@, [id |-> "memory_" \o str_int(script.memory_id),
                          document |-> script.conversation_turns[script.turn]])]
    /\ UNCHANGED <<tables, caller_but_script>>

\* lines 281-291: the first three user messages are stored
Step7Store ==
    /\ script.pc = "store"
    /\ script' = [script EXCEPT
           !.pc = IF script.turn = Len(script.conversation_turns)
                  THEN "cleanup" ELSE "user",
           !.turn = @ + 1,
           !.memory_id = IF script.memory_id < 3 THEN @ + 1 ELSE @,
           !.memory_collection =
               IF script.memory_id < 3
               THEN Append(@, [id |-> "memory_" \o str_int(script.memory_id),
                               document |-> script.conversation_turns[script.turn]])
               ELSE @]
    /\ UNCHANGED <<tables, caller_but_script>>

\* lines 293-294: client.delete_collection
Step7Cleanup ==
    /\ script.pc = "cleanup"
    /\ script' = [script EXCEPT !.pc = "done", !.memory_collection = <<>>]
    /\ UNCHANGED <<tables, caller_but_script>>

SpecStep7 ==
    InitStep7
        /\ [][Step7AddUserMessage \/ Step7GetChatMessageContent \/ Step7Store
                  \/ Step7Cleanup]_vars

---------------------------------------------------------------------------
(* step6_streaming: the two streaming chat loops,                          *)
(* example3_streaming_with_chat_history and                                *)
(* example5_interactive_streaming_chat.  A stream is a sequence of chunks; *)
(* a chunk is the list of the contents it carries, one per choice: no      *)
(* content (the empty list) or one, since the settings ask for one choice. *)
(* The service ends a stream after MaxChunks chunks at the latest.         *)

MaxChunks == 2

InitStep6 ==
    /\ InitTables
    /\ InitCall
    /\ watch = NotWatching
    /\ script \in
           {[pc |-> "user", turn |-> 1, stream |-> <<>>, full_response |-> "",
             example |-> "example3_streaming_with_chat_history",
             conversations |->
                 <<"What is Python?", "What are its main advantages?",
                   "Can you give me a simple code example?">>,
             chat_history |->
                 <<[role |-> "system",
                    content |-> "You are a helpful AI assistant. Keep responses concise."]>>],
            [pc |-> "user", turn |-> 1, stream |-> <<>>, full_response |-> "",
             example |-> "example5_interactive_streaming_chat",
             conversations |->
                 <<"Hello! What can you help me with?",
                   "Tell me an interesting fact about space.",
                   "Thanks! Goodbye!">>,
             chat_history |->
                 <<[role |-> "system",
                    content |-> "You are a friendly AI assistant. Be helpful, concise, and engaging."]>>]}

\* lines 185-192, 308-313: the user message is added and the stream opened
Step6AddUserMessage ==
    /\ script.pc = "user"
    /\ script' = [script EXCEPT
           !.pc = "stream",
           !.stream = <<>>,
           !.full_response = "",
           !.chat_history =
               Append(@, [role |-> "user",
                          content |-> script.conversations[script.turn]])]
    /\ UNCHANGED <<tables, caller_but_script>>

\* a loop body that keeps the content of the last chunk only
Step6Chunk_keeping_last ==
    /\ script.pc = "stream"
    /\ Len(script.stream) < MaxChunks
    /\ \E chunk \in {<<>>, <<"">>, <<"Py">>, <<"thon">>} :
           script' = [script EXCEPT
               !.stream = Append(@, chunk),
               !.full_response = IF chunk # <<>> THEN chunk[1] ELSE @]
    /\ UNCHANGED <<tables, caller_but_script>>

\* lines 192-200, 313-321: a chunk arrives; its content is added to the
\* response unless the chunk is empty
Step6Chunk ==
    /\ script.pc = "stream"
    /\ Len(script.stream) < MaxChunks
    /\ \E chunk \in {<<>>, <<"">>, <<"Py">>, <<"thon">>} :
           script' = [script EXCEPT
               !.stream = Append(@, chunk),
               !.full_response = IF chunk # <<>> THEN @ \o chunk[1] ELSE @]
    /\ UNCHANGED <<tables, caller_but_script>>

\* lines 203, 323: the stream has ended; the response is added
Step6AddAssistantMessage ==
    /\ script.pc = "stream"
    /\ script' = [script EXCEPT
           !.pc = IF script.turn = Len(script.conversations) THEN "done" ELSE "user",
           !.turn = @ + 1,
           !.chat_history =
               Append(@, [role |-> "assistant", content |-> script.full_response])]
    /\ UNCHANGED <<tables, caller_but_script>>

SpecStep6 ==
    InitStep6
        /\ [][Step6AddUserMessage \/ Step6Chunk \/ Step6AddAssistantMessage]_vars

---------------------------------------------------------------------------
(* Reading a returned text *)

StartsWith(s, prefix) ==
    Len(s) >= Len(prefix) /\ SubSeq(s, 1, Len(prefix)) = prefix

IsErrorString(r) == r.kind = "str" /\ StartsWith(r.text, "Error: ")

\* the lines of a text: its pieces between line feeds
LineFeeds(s) == {i \in 1..Len(s) : SubSeq(s, i, i) = "\n"}

RECURSIVE Lines(_)
Lines(s) ==
    IF LineFeeds(s) = {} THEN <<s>>
    ELSE LET i == CHOOSE i \in LineFeeds(s) : \A j \in LineFeeds(s) : i <= j
         IN  <<SubSeq(s, 1, i - 1)>> \o Lines(SubSeq(s, i + 1, Len(s)))

\* the rows of a listing: what follows its heading and the empty line after
\* it, each row ended by a line feed
ListedRows(text) ==
    LET lines == Lines(text)
    IN  IF Len(lines) >= 3 /\ lines[2] = "" /\ lines[Len(lines)] = ""
        THEN SubSeq(lines, 3, Len(lines) - 1)
        ELSE <<>>

\* the members of a set of positions, in increasing order
Ascending(positions, n) ==
    SelectSeq([i \in 1..n |-> i], LAMBDA i : i \in positions)

---------------------------------------------------------------------------
(* C1: divide(number1, 0) and percentage(part, 0) return an error string,  *)
(* whatever the numerator, and raise nothing.                              *)

C1_ZeroDivisorReturnsError ==
    (op \in {"divide", "percentage"} /\ IsZero(args.num[2]))
        => IsErrorString(result)

C1_Witness ==
    /\ op = "divide"
    /\ args.num = <<Rat(0 - 3, 2), Zero>>
    /\ result = Str("Error: Cannot divide by zero")

(* C2: no operation of the three plugins raises: every call ends by        *)
(* returning a number or a text.                                           *)

C2_NoOperationRaises == op # "" => result.kind \in {"float", "complex", "str"}

(* C3: square_root(n) returns an error string when n < 0; when n >= 0 it   *)
(* returns r >= 0 with r*r = n when n is the square of an integer, and     *)
(* otherwise r*r <= n < (r + 1/RootPrecision)^2, the tolerance of a root   *)
(* rounded down to a multiple of 1/RootPrecision.                          *)

IsIntegerSquare(a) == IsInteger(a) /\ \E k \in 0..a.n : k * k = a.n

RootStep == Rat(1, RootPrecision)

C3_SquareRoot ==
    op = "square_root" =>
        LET n == args.num[1]
            r == result.num
        IN  IF IsNeg(n) THEN IsErrorString(result)
            ELSE /\ result.kind = "float"
                 /\ ~IsNeg(r)
                 /\ RLeq(RMul(r, r), n)
                 /\ RLess(n, RMul(RAdd(r, RootStep), RAdd(r, RootStep)))
                 /\ IsIntegerSquare(n) => RMul(r, r) = n

C3_Witness ==
    /\ op = "square_root"
    /\ args.num = <<Rat(4, 1)>>
    /\ result = Float(Rat(2, 1))

(* C4: whatever calls have been made, the users, products, orders and      *)
(* weather tables hold their initial literal contents.                     *)

C4_TablesReadOnly ==
    /\ users = DatabasePlugin_users
    /\ products = DatabasePlugin_products
    /\ orders = DatabasePlugin_orders
    /\ weather_data = WeatherPlugin_weather_data

C4_Witness ==
    /\ op = "check_stock"
    /\ args.int = <<101, 15>>
    /\ StartsWith(result.text, "[v] Laptop has 15 units in stock.")
    /\ products = DatabasePlugin_products

(* C5: get_user_by_id(id) returns the record of the user whose id is id    *)
(* when there is one and "User with ID <id> not found." for any other id;  *)
(* get_product_by_id likewise over the products; so a product id is no     *)
(* user id and conversely.                                                 *)

UserRecord(u) ==
    <<"User ID: " \o ToString(u.id), "Name: " \o u.name, "Email: " \o u.email,
      "Role: " \o u.role, "Active: " \o (IF u.active THEN "True" ELSE "False")>>

ProductRecord(p) ==
    <<"Product ID: " \o ToString(p.id), "Name: " \o p.name,
      "Price: $" \o ToString(p.price.n \div p.price.d) \o "."
          \o ToString(((p.price.n * 100) \div p.price.d) % 100),
      "Stock: " \o ToString(p.stock) \o " units", "Category: " \o p.category>>

C5_LookupById ==
    /\ op = "get_user_by_id" =>
           LET id == args.int[1]
           IN  IF \E u \in Seqs(users) : u.id = id
               THEN \E u \in Seqs(users) :
                        u.id = id /\ Lines(result.text) = UserRecord(u)
               ELSE result.text = "User with ID " \o ToString(id) \o " not found."
    /\ op = "get_product_by_id" =>
           LET id == args.int[1]
           IN  IF \E p \in Seqs(products) : p.id = id
               THEN \E p \in Seqs(products) :
                        p.id = id /\ Lines(result.text) = ProductRecord(p)
               ELSE result.text
                        = "Product with ID " \o ToString(id) \o " not found."

C5_Witness ==
    /\ op = "get_user_by_id"
    /\ args.int = <<101>>
    /\ result.text = "User with ID 101 not found."

(* C6: a by-id lookup made again with the same id returns the text it      *)
(* returned the first time, whatever was called in between.                *)

C6_LookupRepeats ==
    (watch.phase >= 1 /\ op = watch.op /\ args.int = <<watch.id>>)
        => result.text = watch.text

C6_Witness ==
    /\ watch.phase = 3
    /\ watch.op = "get_user_by_id"
    /\ watch.id = 1
    /\ op = watch.op
    /\ args.int = <<1>>
    /\ result.text = watch.text

(* C7: get_user_by_name(query) lists the users whose lower-cased name      *)
(* contains the lower-cased query, in table order, each once, under a      *)
(* heading whose count is the number of rows; with no such user it returns *)
(* the "No users found" message.                                           *)

UserListing(u) ==
    "ID: " \o ToString(u.id) \o ", Name: " \o u.name \o ", Email: " \o u.email
        \o ", Role: " \o u.role

UsersMatching(query) ==
    {i \in DOMAIN users : contains(lower(query), lower(users[i].name))}

C7_UsersByName ==
    op = "get_user_by_name" =>
        LET query == args.str[1]
            matching == Ascending(UsersMatching(query), Len(users))
            rows == ListedRows(result.text)
        IN  IF matching = <<>>
            THEN result.text = "No users found matching '" \o query \o "'."
            ELSE /\ Lines(result.text)[1]
                        = "Found " \o ToString(Len(rows)) \o " user(s):"
                 /\ Len(rows) = Len(matching)
                 /\ \A k \in DOMAIN rows : rows[k] = UserListing(users[matching[k]])

C7_Witness ==
    /\ op = "get_user_by_name"
    /\ args.str = <<"I">>
    /\ Lines(result.text)[1] = "Found 5 user(s):"

(* C8: get_user_by_name with the empty string, or with a string every      *)
(* user's name contains, returns all 5 users under the count 5.            *)

C8_QueryInEveryName ==
    (/\ op = "get_user_by_name"
     /\ \A u \in Seqs(users) : contains(args.str[1], u.name))
        => /\ Lines(result.text)[1] = "Found 5 user(s):"
           /\ ListedRows(result.text) = [i \in 1..5 |-> UserListing(users[i])]

C8_Witness ==
    /\ op = "get_user_by_name"
    /\ args.str = <<"">>
    /\ Len(ListedRows(result.text)) = 5

(* C9: search_products(query) lists the products whose name or category    *)
(* contains the query, compared in lower case, each once and in table      *)
(* order, under a heading whose count is the number of rows.               *)

ProductListing(p) ==
    "ID: " \o ToString(p.id) \o ", Name: " \o p.name \o ", Price: $"
        \o ToString(p.price.n \div p.price.d) \o "."
        \o ToString(((p.price.n * 100) \div p.price.d) % 100)
        \o ", Stock: " \o ToString(p.stock)

InName(query, p) == contains(lower(query), lower(p.name))
InCategory(query, p) == contains(lower(query), lower(p.category))

ProductsMatching(query) ==
    {i \in DOMAIN products :
        InName(query, products[i]) \/ InCategory(query, products[i])}

C9_SearchProducts ==
    op = "search_products" =>
        LET query == args.str[1]
            matching == Ascending(ProductsMatching(query), Len(products))
            rows == ListedRows(result.text)
        IN  IF matching = <<>>
            THEN result.text = "No products found matching '" \o query \o "'."
            ELSE /\ Lines(result.text)[1]
                        = "Found " \o ToString(Len(rows)) \o " product(s):"
                 /\ Len(rows) = Len(matching)
                 /\ \A k \in DOMAIN rows :
                        rows[k] = ProductListing(products[matching[k]])

C9_Witness ==
    /\ op = "search_products"
    /\ args.str = <<"C">>
    /\ InName("C", products[5]) /\ InCategory("C", products[1])
    /\ Lines(result.text)[1] = "Found 5 product(s):"

(* C10: get_user_orders(user_id) reports the orders whose user_id is the   *)
(* argument, in table order, each with its quantity, its status and the    *)
(* name of the product whose id is its product_id; for user 1 these are    *)
(* the orders 1001 and 1003.                                               *)

ProductNamed(product_id) ==
    IF \E p \in Seqs(products) : p.id = product_id
    THEN (CHOOSE p \in Seqs(products) : p.id = product_id).name
    ELSE "Unknown"

OrderListing(o) ==
    "Order ID: " \o ToString(o.id) \o ", Product: " \o ProductNamed(o.product_id)
        \o ", Quantity: " \o ToString(o.quantity) \o ", Status: " \o o.status

C10_UserOrders ==
    op = "get_user_orders" =>
        LET user_id == args.int[1]
            mine == Ascending({i \in DOMAIN orders : orders[i].user_id = user_id},
                              Len(orders))
            rows == ListedRows(result.text)
        IN  /\ IF mine = <<>>
               THEN result.text
                        = "No orders found for user ID " \o ToString(user_id) \o "."
               ELSE /\ Lines(result.text)[1]
                           = "Orders for User ID " \o ToString(user_id) \o ":"
                    /\ Len(rows) = Len(mine)
                    /\ \A k \in DOMAIN rows : rows[k] = OrderListing(orders[mine[k]])
            /\ user_id = 1 =>
                   rows = <<"Order ID: 1001, Product: Laptop, Quantity: 1, Status: Delivered",
                            "Order ID: 1003, Product: Monitor, Quantity: 1, Status: Processing">>

C10_Witness ==
    /\ op = "get_user_orders"
    /\ args.int = <<1>>
    /\ Len(ListedRows(result.text)) = 2


(* C11: whatever products the orders name, get_user_orders returns a text  *)
(* that lists every order of the user: an order whose product_id no        *)
(* product has is listed with the product "Unknown" and its own quantity   *)
(* and status, and the user's other orders with the names of their         *)
(* products.                                                               *)

Dangling(o) == \A p \in Seqs(products) : p.id # o.product_id

C11_DanglingOrders ==
    op = "get_user_orders" =>
        LET mine == Ascending({i \in DOMAIN orders :
                                  orders[i].user_id = args.int[1]}, Len(orders))
            rows == ListedRows(result.text)
        IN  /\ result.kind = "str"
            /\ Len(rows) = Len(mine)
            /\ \A k \in DOMAIN mine :
                   LET o == orders[mine[k]]
                       tail == ", Quantity: " \o ToString(o.quantity)
                                   \o ", Status: " \o o.status
                   IN  IF Dangling(o)
                       THEN rows[k] = "Order ID: " \o ToString(o.id)
                                          \o ", Product: Unknown" \o tail
                       ELSE \E p \in Seqs(products) :
                                /\ p.id = o.product_id
                                /\ rows[k] = "Order ID: " \o ToString(o.id)
                                                 \o ", Product: " \o p.name \o tail

C11_Witness ==
    /\ op = "get_user_orders"
    /\ args.int = <<1>>
    /\ Dangling(orders[1]) /\ ~Dangling(orders[2])
    /\ ListedRows(result.text)
           = <<"Order ID: 1001, Product: Unknown, Quantity: 1, Status: Delivered",
               "Order ID: 1003, Product: Monitor, Quantity: 1, Status: Processing">>


(* C12: check_stock(product_id, quantity) returns the not-found message    *)
(* when no product has the id, whatever the quantity; for a product it     *)
(* reports sufficient stock exactly when stock >= quantity and             *)
(* insufficient stock exactly when stock < quantity; and every product     *)
(* keeps its stock.                                                        *)

Sufficient(text, p) == StartsWith(text, "[v] " \o p.name \o " has ")
Insufficient(text, p) == StartsWith(text, "[x] " \o p.name \o " only has ")

C12_CheckStock ==
    op = "check_stock" =>
        LET product_id == args.int[1]
            quantity == args.int[2]
            stocked == {p \in Seqs(products) : p.id = product_id}
        IN  /\ IF stocked = {}
               THEN result.text
                        = "Product with ID " \o ToString(product_id) \o " not found."
               ELSE \A p \in stocked :
                        /\ Sufficient(result.text, p) <=> p.stock >= quantity
                        /\ Insufficient(result.text, p) <=> p.stock < quantity
            /\ \A i \in DOMAIN products :
                   products[i].stock = DatabasePlugin_products[i].stock

C12_Witness ==
    /\ op = "check_stock"
    /\ args.int = <<106, 5>>
    /\ products[6].stock = 5
    /\ result.text = "[v] Desk has 5 units in stock. 5 units available."


(* C13: get_total_inventory_value reports one breakdown line per product,  *)
(* in table order, and a grand total that is the sum of price * stock over *)
(* the products; counted in cents on the example table the total is        *)
(* 25698.80, the sum of the six values the breakdown lines display.        *)

Cents(price) == (price.n * 100) \div price.d

Money(cents) ==
    ToString(cents \div 100) \o "."
        \o ToString((cents % 100) \div 10) \o ToString(cents % 10)

RECURSIVE SumCents(_)
SumCents(values) ==
    IF values = <<>> THEN 0 ELSE Head(values) + SumCents(Tail(values))

Digit(ch) == CHOOSE d \in 0..9 : ToString(d) = ch

RECURSIVE ParseNat(_)
ParseNat(s) ==
    IF s = "" THEN 0
    ELSE ParseNat(SubSeq(s, 1, Len(s) - 1)) * 10 + Digit(SubSeq(s, Len(s), Len(s)))

\* the value a breakdown line displays, in cents: the dollars and the two
\* decimals that follow "= $"
DisplayedCents(line) ==
    LET at == CHOOSE i \in 1..(Len(line) - 3) : SubSeq(line, i, i + 3) = " = $"
        amount == SubSeq(line, at + 4, Len(line))
        point == Len(amount) - 2
    IN  IF SubSeq(amount, point, point) = "."
        THEN ParseNat(SubSeq(amount, 1, point - 1)) * 100
                 + ParseNat(SubSeq(amount, point + 1, Len(amount)))
        ELSE 0 - 1

C13_InventoryValue ==
    op = "get_total_inventory_value" =>
        LET lines == Lines(result.text)
            value == [i \in DOMAIN products |->
                         Cents(products[i].price) * products[i].stock]
        IN  /\ Len(lines) = Len(products) + 4
            /\ Len(products) = 6
            /\ lines[1] = "Inventory Summary:" /\ lines[2] = ""
            /\ \A i \in DOMAIN products :
                   lines[i + 2]
                       = products[i].name \o ": " \o ToString(products[i].stock)
                             \o " units x $" \o Money(Cents(products[i].price))
                             \o " = $" \o Money(value[i])
            /\ lines[9] = ""
            /\ lines[10] = "Total Inventory Value: $" \o Money(SumCents(value))
            /\ lines[10] = "Total Inventory Value: $25698.80"
            /\ SumCents([i \in 1..6 |-> DisplayedCents(lines[i + 2])]) = 2569880

C13_Witness ==
    /\ op = "get_total_inventory_value"
    /\ Lines(result.text)[3] = "Laptop: 15 units x $999.99 = $14999.85"
    /\ DisplayedCents(Lines(result.text)[3]) = 1499985
    /\ Lines(result.text)[10] = "Total Inventory Value: $25698.80"


(* C14: for a city whose lower-cased name is a key of the weather table,   *)
(* in any letter case, get_current_weather returns the temperature, the    *)
(* condition and the humidity the table stores for it (London: 59, Rainy,  *)
(* 80) and draws no random value, so that every call with the city returns *)
(* this one text.                                                          *)

\* the lines of a reading
Reading(city, temp, condition, humidity) ==
    <<"Weather in " \o title(city) \o ":",
      "Temperature: " \o ToString(temp) \o "*F",
      "Condition: " \o condition,
      "Humidity: " \o ToString(humidity) \o "%">>

Known(city) == \E key \in DOMAIN WeatherPlugin_weather_data : lower(city) = key

Stored(city) ==
    WeatherPlugin_weather_data[
        CHOOSE key \in DOMAIN WeatherPlugin_weather_data : lower(city) = key]

C14_KnownCity ==
    (op = "get_current_weather" /\ Known(args.str[1])) =>
        LET city == args.str[1]
        IN  /\ Lines(result.text)
                   = Reading(city, Stored(city).temp, Stored(city).condition,
                             Stored(city).humidity)
            /\ draws = <<>>
            /\ lower(city) = "london" =>
                   SubSeq(Lines(result.text), 2, 4)
                       = <<"Temperature: 59*F", "Condition: Rainy", "Humidity: 80%">>

C14_Witness ==
    /\ op = "get_current_weather"
    /\ args.str = <<"LONDON">>
    /\ draws = <<>>
    /\ result.text
           = "Weather in London:\nTemperature: 59*F\nCondition: Rainy\nHumidity: 80%"


(* C15: for a city that is no key of the weather table, every result of    *)
(* get_current_weather has a temperature in 50..90, a humidity in 40..90   *)
(* and a condition among Sunny, Cloudy, Rainy and Partly Cloudy; every     *)
(* temperature, condition and humidity of these ranges is the result of    *)
(* some call; and the weather table keeps its seven records.               *)

FallbackTemps == 50..90
FallbackHumidities == 40..90
FallbackConditions == <<"Sunny", "Cloudy", "Rainy", "Partly Cloudy">>

\* the text whose lines are the reading
ReadingText(city, temp, condition, humidity) ==
    LET lines == Reading(city, temp, condition, humidity)
    IN  lines[1] \o "\n" \o lines[2] \o "\n" \o lines[3] \o "\n" \o lines[4]

\* a call for city can return the reading of temp, the c-th condition and
\* humidity
CanRead(city, temp, c, humidity) ==
    ENABLED (/\ WeatherGetCurrentWeather(city, <<temp, c, humidity>>)
             /\ result'.text
                    = ReadingText(city, temp, FallbackConditions[c], humidity))

C15_UnknownCity ==
    /\ (op = "get_current_weather" /\ ~Known(args.str[1])) =>
           LET lines == Lines(result.text)
           IN  /\ Len(lines) = 4
               /\ lines[1] = "Weather in " \o title(args.str[1]) \o ":"
               /\ \E t \in FallbackTemps :
                      lines[2] = "Temperature: " \o ToString(t) \o "*F"
               /\ \E c \in 1..4 :
                      lines[3] = "Condition: " \o FallbackConditions[c]
               /\ \E h \in FallbackHumidities :
                      lines[4] = "Humidity: " \o ToString(h) \o "%"
    /\ Idle =>
           \A t \in FallbackTemps, c \in 1..4, h \in FallbackHumidities :
               CanRead("Atlantis", t, c, h)
    /\ weather_data = WeatherPlugin_weather_data

C15_Witness ==
    /\ op = "get_current_weather"
    /\ args.str = <<"el dorado">>
    /\ draws = <<73, 4, 61>>
    /\ result.text
           = "Weather in El Dorado:\nTemperature: 73*F\nCondition: Partly Cloudy\nHumidity: 61%"
    /\ weather_data = WeatherPlugin_weather_data


(* C16: get_forecast(city) returns three entries, Day 1, Day 2 and Day 3   *)
(* in this order, each with a high, a low and a condition, for a city of   *)
(* the weather table as for any other; the entries are those of the random *)
(* values drawn, whatever the table stores for the city.                   *)

ForecastConditions == <<"Sunny", "Cloudy", "Rainy", "Partly Cloudy", "Stormy">>

DayEntry(day, high, low, condition) ==
    "Day " \o ToString(day) \o ": High " \o ToString(high) \o "*F, Low "
        \o ToString(low) \o "*F - " \o condition

C16_Forecast ==
    op = "get_forecast" =>
        LET lines == Lines(result.text)
        IN  /\ Len(lines) = 5
            /\ lines[1] = "3-Day Forecast for " \o title(args.str[1]) \o ":"
            /\ lines[5] = ""
            /\ Len(draws) = 9
            /\ \A day \in 1..3 :
                   lines[day + 1]
                       = DayEntry(day, draws[3 * day - 2], draws[3 * day - 1],
                                  ForecastConditions[draws[3 * day]])

C16_Witness ==
    /\ op = "get_forecast"
    /\ args.str = <<"London">>
    /\ weather_data["london"].condition = "Rainy"
    /\ draws = <<85, 50, 1, 65, 65, 5, 85, 65, 4>>
    /\ SubSeq(Lines(result.text), 2, 4)
           = <<"Day 1: High 85*F, Low 50*F - Sunny",
               "Day 2: High 65*F, Low 65*F - Stormy",
               "Day 3: High 85*F, Low 65*F - Partly Cloudy">>


(* C17: get_forecast draws its entries as the fallback of                  *)
(* get_current_weather does: every condition of a forecast entry is one of *)
(* the fallback's conditions, and every high and low is in the fallback's  *)
(* temperature range 50..90.                                               *)

After(line, prefix) == SubSeq(line, Len(prefix) + 1, Len(line))

\* line is the entry of the day with a high and a low among temps and a
\* condition among conditions
EntryWithin(line, day, temps, conditions) ==
    \E high \in temps :
        LET upto_low == "Day " \o ToString(day) \o ": High " \o ToString(high)
                            \o "*F, Low "
        IN  /\ StartsWith(line, upto_low)
            /\ \E low \in temps :
                   LET upto_condition == ToString(low) \o "*F - "
                   IN  /\ StartsWith(After(line, upto_low), upto_condition)
                       /\ After(After(line, upto_low), upto_condition)
                              \in conditions

C17_SameRandomModel ==
    op = "get_forecast" =>
        \A day \in 1..3 :
            EntryWithin(Lines(result.text)[day + 1], day, FallbackTemps,
                        Seqs(current_conditions))

(* C17 as amended: every condition of a forecast entry is one of the       *)
(* fallback's conditions or Stormy, and every high and low is in the       *)
(* fallback's temperature range 50..90.                                    *)

C17_ForecastModel ==
    op = "get_forecast" =>
        \A day \in 1..3 :
            EntryWithin(Lines(result.text)[day + 1], day, FallbackTemps,
                        Seqs(current_conditions) \cup {"Stormy"})

C17_Witness ==
    /\ op = "get_forecast"
    /\ args.str = <<"atlantis">>
    /\ Lines(result.text)[2] = "Day 1: High 65*F, Low 65*F - Stormy"
    /\ Lines(result.text)[3] = "Day 2: High 85*F, Low 50*F - Rainy"


(* C18: compare_weather(city1, city2) returns, under its heading, the      *)
(* reading of city1, a line "vs" and the reading of city2, and nothing     *)
(* else; the reading of a city of the weather table is the one             *)
(* get_current_weather returns for it, and the readings of other cities    *)
(* take the random values in the order city1, city2.                       *)

\* the reading of city when the random module gives the values of rnd
ReadingOf(city, rnd) ==
    IF Known(city)
    THEN Reading(city, Stored(city).temp, Stored(city).condition,
                 Stored(city).humidity)
    ELSE Reading(city, rnd[1], FallbackConditions[rnd[2]], rnd[3])

Drawn(city) == IF Known(city) THEN 0 ELSE 3

C18_Compare ==
    op = "compare_weather" =>
        LET city1 == args.str[1]
            city2 == args.str[2]
            lines == Lines(result.text)
        IN  /\ Len(draws) = Drawn(city1) + Drawn(city2)
            /\ lines
                   = <<"Weather Comparison:", "">>
                         \o ReadingOf(city1, SubSeq(draws, 1, Drawn(city1)))
                         \o <<"", "vs", "">>
                         \o ReadingOf(city2, SubSeq(draws, Drawn(city1) + 1,
                                                    Len(draws)))

C18_Witness ==
    /\ op = "compare_weather"
    /\ args.str = <<"London", "tokyo">>
    /\ draws = <<>>
    /\ result.text
           = "Weather Comparison:\n\n"
                 \o "Weather in London:\nTemperature: 59*F\nCondition: Rainy\nHumidity: 80%"
                 \o "\n\nvs\n\n"
                 \o "Weather in Tokyo:\nTemperature: 68*F\nCondition: Sunny\nHumidity: 55%"


(* C19: for a city of the weather table, should_bring_umbrella answers     *)
(* "Yes, bring an umbrella" exactly when the stored condition contains     *)
(* "rain" or "storm" in any letter case, which on the table is London      *)
(* alone, and "No umbrella needed" otherwise; for any other city it        *)
(* returns the "not available" message; it draws no random value, so the   *)
(* answer depends on the city alone.                                       *)

\* s contains the word in some letter case
Mentions(s, word) ==
    \E i \in 1..(Len(s) - Len(word) + 1) :
        lower(SubSeq(s, i, i + Len(word) - 1)) = word

Wet(condition) == Mentions(condition, "rain") \/ Mentions(condition, "storm")

C19_Umbrella ==
    op = "should_bring_umbrella" =>
        LET city == args.str[1]
        IN  /\ draws = <<>>
            /\ IF Known(city)
               THEN /\ Wet(Stored(city).condition) <=> lower(city) = "london"
                    /\ result.text
                           = (IF Wet(Stored(city).condition)
                              THEN "Yes, bring an umbrella! It's "
                              ELSE "No umbrella needed. It's ")
                                 \o Stored(city).condition \o " in "
                                 \o title(city) \o "."
               ELSE result.text
                        = "Weather data not available for " \o city
                              \o ", but it's always good to be prepared!"

C19_Witness ==
    /\ op = "should_bring_umbrella"
    /\ args.str = <<"LONDON">>
    /\ result.text = "Yes, bring an umbrella! It's Rainy in London."


(* C20: with several threads calling the plugins at once, in any           *)
(* interleaving of their steps, every call of an operation that draws no   *)
(* random value returns what the operation returns when it runs alone, and *)
(* no step changes a table.                                                *)

\* what the call of a thread returns when nothing runs during it
Alone(me) ==
    CASE me.op = "get_user_by_id" -> get_user_by_id(me.int[1])
      [] me.op = "check_stock" -> check_stock(me.int[1], me.int[2])
      [] me.op = "get_user_orders" -> get_user_orders(me.int[1])
      [] me.op = "get_total_inventory_value" -> get_total_inventory_value
      [] me.op = "should_bring_umbrella" -> should_bring_umbrella(me.str[1])
      [] me.op = "get_current_weather" -> get_current_weather(me.str[1], <<>>)

C20_ThreadSafe ==
    /\ \A t \in Threads :
           threads[t].pc = "done" => threads[t].text = Alone(threads[t])
    /\ tables = <<DatabasePlugin_users, DatabasePlugin_products,
                  DatabasePlugin_orders, WeatherPlugin_weather_data>>

\* a call returns while another is in the middle of its loop
C20_Witness ==
    /\ threads[1].pc = "done"
    /\ threads[1].op = "check_stock"
    /\ threads[1].text = "[x] Mouse only has 50 units in stock. Cannot fulfill order for 51 units."
    /\ threads[2].pc = "rows"
    /\ threads[2].i = 3


(* C21: a call made again with the same arguments returns what it returned *)
(* the first time, for every operation of the three plugins but            *)
(* get_current_weather and compare_weather (whose fallback for a city      *)
(* outside the table is drawn at random), get_forecast and                 *)
(* should_bring_umbrella included.                                         *)

MadeAgain == watch.phase >= 1 /\ op = watch.op /\ args = watch.args

C21_EqualRuns ==
    (MadeAgain /\ op \notin {"get_current_weather", "compare_weather"})
        => result = watch.result

(* C21 as amended: the same, but for get_forecast, whose entries are drawn *)
(* at random for every city; get_current_weather and compare_weather       *)
(* return equal results too when their cities are keys of the table.       *)

C21_EqualRunsButRandom ==
    (/\ MadeAgain
     /\ op # "get_forecast"
     /\ op \in {"get_current_weather", "compare_weather"} =>
            \A i \in DOMAIN args.str : Known(args.str[i]))
        => result = watch.result

C21_Witness ==
    /\ watch.phase = 3
    /\ watch.op = "should_bring_umbrella"
    /\ watch.args = StrArgs(<<"atlantis">>)
    /\ op = watch.op /\ args = watch.args
    /\ result = watch.result
    /\ result.text
           = "Weather data not available for atlantis, but it's always good to be prepared!"


(* C22: in every reachable state the user ids, the product ids and the     *)
(* order ids are each pairwise distinct positive integers, every price and *)
(* stock is non-negative, every order quantity is positive, every role is  *)
(* Admin, User or Manager, every status is Processing, Shipped or          *)
(* Delivered, and every weather key is lower case with a humidity in       *)
(* 0..100.                                                                 *)

DistinctPositiveIds(table) ==
    /\ \A i \in DOMAIN table : table[i].id \in Nat \ {0}
    /\ \A i, j \in DOMAIN table : table[i].id = table[j].id => i = j

C22_DataModel ==
    /\ DistinctPositiveIds(users)
    /\ DistinctPositiveIds(products)
    /\ DistinctPositiveIds(orders)
    /\ \A p \in Seqs(products) : ~IsNeg(p.price) /\ p.stock >= 0
    /\ \A o \in Seqs(orders) : o.quantity > 0
    /\ \A u \in Seqs(users) : u.role \in {"Admin", "User", "Manager"}
    /\ \A o \in Seqs(orders) : o.status \in {"Processing", "Shipped", "Delivered"}
    /\ \A key \in DOMAIN weather_data :
           /\ \A i \in 1..Len(key) : ~IsUpper(SubSeq(key, i, i))
           /\ weather_data[key].humidity \in 0..100

C22_Witness ==
    /\ op = "get_product_by_id"
    /\ args.int = <<106>>
    /\ Len(users) = 5 /\ Len(products) = 6 /\ Len(orders) = 4
    /\ products[6].id = 106 /\ products[6].stock = 5
    /\ DOMAIN weather_data
           = {"new york", "london", "tokyo", "paris", "sydney", "mumbai", "dubai"}


(* C23: every order's user_id is the id of a user and every order's        *)
(* product_id is the id of a product, and no call of get_user_orders,      *)
(* whatever the user id, returns a row with the product "Unknown".         *)

Within(s, part) ==
    \E i \in 1..(Len(s) - Len(part) + 1) : SubSeq(s, i, i + Len(part) - 1) = part

C23_OrdersReferToRows ==
    /\ \A o \in Seqs(orders) :
           /\ \E u \in Seqs(users) : u.id = o.user_id
           /\ \E p \in Seqs(products) : p.id = o.product_id
    /\ op = "get_user_orders" => ~Within(result.text, "Unknown")

C23_Witness ==
    /\ op = "get_user_orders"
    /\ args.int = <<4>>
    /\ ListedRows(result.text)
           = <<"Order ID: 1004, Product: Desk Chair, Quantity: 3, Status: Delivered">>


(* C24: in every entry of every get_forecast result the low temperature    *)
(* is at most the high temperature, and the two are equal only at 65.      *)

\* the part of s in front of the first mark, and the part behind it
Ahead(s, mark) ==
    LET at == CHOOSE i \in 1..Len(s) :
                  /\ SubSeq(s, i, i + Len(mark) - 1) = mark
                  /\ \A j \in 1..(i - 1) : SubSeq(s, j, j + Len(mark) - 1) # mark
    IN  SubSeq(s, 1, at - 1)
Behind(s, mark) == SubSeq(s, Len(Ahead(s, mark)) + Len(mark) + 1, Len(s))

HighOf(line) == ParseNat(Ahead(Behind(line, ": High "), "*F"))
LowOf(line) == ParseNat(Ahead(Behind(line, ", Low "), "*F"))

C24_LowAtMostHigh ==
    op = "get_forecast" =>
        \A day \in 1..3 :
            LET line == Lines(result.text)[day + 1]
            IN  /\ StartsWith(line, "Day " \o ToString(day) \o ": High ")
                /\ LowOf(line) <= HighOf(line)
                /\ LowOf(line) = HighOf(line) => LowOf(line) = 65

C24_Witness ==
    /\ op = "get_forecast"
    /\ LET lines == Lines(result.text)
       IN  /\ LowOf(lines[2]) = 65 /\ HighOf(lines[2]) = 65
           /\ LowOf(lines[3]) = 50 /\ HighOf(lines[3]) = 85
           /\ LowOf(lines[4]) = 65 /\ HighOf(lines[4]) = 85


(* C25: check_stock does not validate the quantity: for every product of   *)
(* the table and every quantity that is zero or negative it answers that   *)
(* the stock is sufficient ("units available"), never with an error.       *)

C25_QuantityNotValidated ==
    (op = "check_stock" /\ args.int[2] <= 0) =>
        \A p \in Seqs(products) :
            p.id = args.int[1] =>
                /\ p.stock >= 0
                /\ result.kind = "str"
                /\ result.text
                       = "[v] " \o p.name \o " has " \o ToString(p.stock)
                             \o " units in stock. " \o ToString(args.int[2])
                             \o " units available."

C25_Witness ==
    /\ op = "check_stock"
    /\ args.int = <<106, 0 - 1>>
    /\ result.text = "[v] Desk has 5 units in stock. -1 units available."

(* C26: get_user_orders does not check that the user exists: for a user    *)
(* id absent from the user table and for a user of the table without       *)
(* orders it returns the same "No orders found for user ID N." message,    *)
(* which differs only in the id it echoes, never a "not found" message.    *)

C26_UserNotChecked ==
    op = "get_user_orders" =>
        /\ ~Within(result.text, "not found")
        /\ (\A o \in Seqs(orders) : o.user_id # args.int[1]) =>
               result.text
                   = "No orders found for user ID " \o ToString(args.int[1]) \o "."

C26_Witness ==
    /\ op = "get_user_orders"
    /\ args.int = <<6>>
    /\ \A u \in Seqs(users) : u.id # 6
    /\ \E u \in Seqs(users) : u.id = 3
    /\ \A o \in Seqs(orders) : o.user_id \notin {3, 6}
    /\ result.text = "No orders found for user ID 6."


(* C27: in example3_conversational_memory, over the loop of conversation   *)
(* turns: the memory collection never holds more than 3 documents, their   *)
(* ids memory_0, memory_1, memory_2 are distinct, a turn's message is      *)
(* stored only after that turn's completion call, and the memory query of  *)
(* a turn sees only messages of earlier turns; at the 4th turn the query   *)
(* runs over exactly the first three user messages and the 4th message is  *)
(* never stored.                                                           *)

C27_Memory ==
    LET memory == script.memory_collection
        turns == script.conversation_turns
    IN  /\ Len(memory) <= 3
        /\ \A i \in DOMAIN memory :
               /\ memory[i].id = "memory_" \o ToString(i - 1)
               /\ memory[i].document = turns[i]
               /\ Len(script.requests) >= i
        /\ \A i, j \in DOMAIN memory : memory[i].id = memory[j].id => i = j
        /\ \A i \in DOMAIN memory : memory[i].document # turns[4]
        /\ \A q \in Seqs(script.queries) :
               /\ \A d \in Seqs(q.documents) :
                      \E earlier \in 1..(q.turn - 1) : d = turns[earlier]
               /\ q.turn = 4 =>
                      /\ Len(q.documents) = 3
                      /\ Seqs(q.documents) = {turns[1], turns[2], turns[3]}
        /\ script.turn > 4 => Len(script.queries) = 1 /\ script.queries[1].turn = 4

C27_Witness ==
    /\ script.pc = "cleanup"
    /\ Len(script.memory_collection) = 3
    /\ script.memory_collection[3]
           = [id |-> "memory_2", document |-> "I use Python and TensorFlow for my work."]
    /\ script.queries
           = <<[turn |-> 4,
                documents |-> <<"I use Python and TensorFlow for my work.",
                                "Hi! My name is Bob and I'm a data scientist.",
                                "I'm working on a project about climate change prediction.">>]>>
    /\ script.chat_history[9].role = "system"
    /\ script.chat_history[9].content
           = "Here's what I remember about you:\nI use Python and TensorFlow for my work.\nHi! My name is Bob and I'm a data scientist.\nI'm working on a project about climate change prediction."

(* C28: in step3_chat_history.main the chat history is append-only and     *)
(* well-ordered: it starts with one system message, every completion is    *)
(* requested when the last message is a user message, each response is     *)
(* appended as an assistant message before the next user message, and at   *)
(* the end the history holds exactly 7 messages: system, then user and     *)
(* assistant alternating three times.                                      *)

Roles(history) == [i \in DOMAIN history |-> history[i].role]
LastRole(history) == history[Len(history)].role

C28_History ==
    /\ [](/\ Len(script.chat_history) >= 1
          /\ \A i \in DOMAIN script.chat_history :
                 script.chat_history[i].role = "system" <=> i = 1)
    /\ [][\/ script'.chat_history = script.chat_history
          \/ /\ Len(script'.chat_history) = Len(script.chat_history) + 1
             /\ SubSeq(script'.chat_history, 1, Len(script.chat_history))
                    = script.chat_history]_vars
    /\ [][script'.requests # script.requests =>
              /\ LastRole(script.chat_history) = "user"
              /\ script'.requests = Append(script.requests, script.chat_history)]_vars
    /\ [][script.response # <<>> =>
              \/ script'.chat_history = script.chat_history
              \/ script'.chat_history
                     = Append(script.chat_history,
                              [role |-> "assistant", content |-> script.response[1]])]_vars
    /\ [][(/\ script'.chat_history # script.chat_history
           /\ LastRole(script'.chat_history) = "user") =>
              /\ script.response = <<>>
              /\ LastRole(script.chat_history) \in {"system", "assistant"}]_vars
    /\ [](script.pc = "done" =>
              Roles(script.chat_history)
                  = <<"system", "user", "assistant", "user", "assistant", "user",
                      "assistant">>)

C28_Witness ==
    /\ script.pc = "done"
    /\ Len(script.chat_history) = 7
    /\ Len(script.requests) = 3
    /\ Roles(script.requests[3]) = <<"system", "user", "assistant", "user", "assistant", "user">>
    /\ script.chat_history[7] = [role |-> "assistant", content |-> ""]

(* C29: step1_basic_chat.main makes no call to the AI service when one of  *)
(* the three settings is missing or empty: it reports the configuration    *)
(* error and returns with no service registered and no prompt invoked;     *)
(* with all three present it invokes the prompt exactly once.              *)

MissingOrEmpty(name) == script.env[name] = <<>> \/ script.env[name] = <<"">>

C29_NoCallWithoutConfig ==
    IF \E name \in DOMAIN script.env : MissingOrEmpty(name)
    THEN /\ script.services = {}
         /\ script.invoked = <<>>
         /\ script.pc \in {"main", "returned"}
         /\ script.pc = "returned" =>
                script.printed = <<"Error: Missing Azure OpenAI config in .env file">>
    ELSE /\ script.pc # "returned"
         /\ Len(script.invoked) <= 1
         /\ script.pc = "done" =>
                script.invoked = <<"What is AI/ML? Answer in 2 to 4 sentences.">>

C29_Witness ==
    /\ script.pc = "returned"
    /\ script.env["AZURE_OPENAI_API_KEY"] = <<"value">>
    /\ script.env["AZURE_OPENAI_ENDPOINT"] = <<"">>
    /\ script.env["AZURE_OPENAI_DEPLOYMENT_NAME"] = <<"value">>
    /\ script.printed = <<"Error: Missing Azure OpenAI config in .env file">>
    /\ script.invoked = <<>>


(* C30: in the streaming chat loops of step 6, for every turn the          *)
(* assistant message appended to the chat history equals the               *)
(* concatenation, in arrival order, of the content of every non-empty      *)
(* chunk of that turn's stream; it is appended exactly once per turn, only *)
(* after the stream has ended, and before the next user message is added.  *)

RECURSIVE Contents(_)
Contents(stream) ==
    IF stream = <<>> THEN ""
    ELSE (IF Head(stream) = <<>> THEN "" ELSE Head(stream)[1])
             \o Contents(Tail(stream))

Added(role) ==
    /\ Len(script'.chat_history) = Len(script.chat_history) + 1
    /\ LastRole(script'.chat_history) = role

C30_Streamed ==
    /\ [][Added("assistant") =>
              /\ script'.chat_history
                     = Append(script.chat_history,
                              [role |-> "assistant",
                               content |-> Contents(script.stream)])
              /\ LastRole(script.chat_history) = "user"
              /\ script'.stream = script.stream]_vars
    /\ [][(script'.stream # script.stream /\ script'.stream # <<>>) =>
              /\ LastRole(script.chat_history) = "user"
              /\ script'.chat_history = script.chat_history]_vars
    /\ [][Added("user") =>
              /\ LastRole(script.chat_history) \in {"system", "assistant"}
              /\ script'.stream = <<>>]_vars
    /\ [](script.pc = "done" =>
              Roles(script.chat_history)
                  = <<"system", "user", "assistant", "user", "assistant", "user",
                      "assistant">>)

C30_Witness ==
    /\ script.pc = "done"
    /\ script.example = "example5_interactive_streaming_chat"
    /\ script.stream = <<<<"Py">>, <<"thon">>>>
    /\ script.chat_history[7] = [role |-> "assistant", content |-> "Python"]
    /\ script.chat_history[5] = [role |-> "assistant", content |-> ""]

=============================================================================
